---- MODULE Spec2Model ----
(***************************************************************************)
(* Model of the WhatsApp finance bot: the webhook dispatcher (main.py),    *)
(* the classifier adapter (gemini_service.py), the ledger adapter          *)
(* (sheets_service.py), the local backup mirror and its synchronisation    *)
(* with the ledger (backup_service.py), the scheduler (scheduler.py), the   *)
(* full backups of the backup directory (SpecFiles) and the health score   *)
(* of the logger (logger_service.py, SpecHealth).                          *)
(* Spec and SpecCommands handle one request at a time; SpecThreads follows *)
(* two request threads through process_transaction step by step.          *)
(*                                                                         *)
(* Text is modelled as a sequence of tokens (words, digit runs, blanks);   *)
(* substring tests are decided by the table KeywordsIn.  Every outcome of  *)
(* a call to a third party (classifier, spreadsheet, gateway, file system) *)
(* is an input of the action that makes the call.                          *)
(***************************************************************************)
EXTENDS Integers, Sequences, FiniteSets, TLC

\* a local variable: value is computed once and Body reads it as v
Bind(value, Body(_)) == CHOOSE r \in {Body(v) : v \in {value}} : TRUE

VARIABLES
    started,            \* main() has loaded the balance and app.run() serves
    current_balance,    \* main.py global current_balance
    transaction_count,  \* main.py global transaction_count
    error_count,        \* main.py global error_count
    ledger,             \* data rows of the remote worksheet, in sheet order
    backup_csv,         \* data rows of backups/transactions.csv, in file order
    gemini_health,      \* GeminiService.health_status
    sheets_health,      \* SheetsService.health_status
    worksheet,          \* SheetsService.worksheet is set (connected)
    clock,              \* number of webhook requests received; datetime.now()
    req,                \* the request handled last
    resp,               \* the HTTP answer given to it
    handler,            \* what handled it: "none", "command" or "pipeline"
    sent,               \* the gateway posts made while handling it
    ai,                 \* the last analyze_transaction call and its result
    save,               \* the last SheetsService.save_transaction call
    bak,                \* the last BackupService.save_transaction call
    drive_files,        \* ids of the files in the Drive evidence folder
    unit,               \* arguments and environment of a service call made
                        \* on its own (the service-level specifications)
    scheduler,          \* the SchedulerService object and the wall clock
    sync,               \* the last BackupService.sync_with_sheets call
    threads,            \* position and locals of each request thread
    result,             \* what a service call made on its own returned
    backup_dir          \* the other files of backups/: name -> rows, mtime

vars == <<started, current_balance, transaction_count, error_count, ledger,
          backup_csv, gemini_health, sheets_health, worksheet, clock, req,
          resp, handler, sent, ai, save, bak, drive_files, unit, scheduler, sync, threads, result,
                   backup_dir>>

(***************************************************************************)
(* Bounds of the model.                                                    *)
(***************************************************************************)
MaxRequests == 2

(***************************************************************************)
(* Values: JSON null, strings and integers as they arrive in a payload.    *)
(***************************************************************************)
Null == [t |-> "null"]
JStr(s) == [t |-> "str", s |-> s]
JInt(n) == [t |-> "int", n |-> n]

\* Python truthiness of a str-or-None value
Truthy(v) == v.t = "str" /\ v.s # ""

\* Optional[Dict]: None or a dict
NoResult == [some |-> FALSE]
Some(d) == [some |-> TRUE, d |-> d]

\* dict.get(key, default)
Get(d, key, default) == IF key \in DOMAIN d THEN d[key] ELSE default

\* d[key] = value
DictSet(d, key, value) ==
    [k \in (DOMAIN d) \cup {key} |-> IF k = key THEN value ELSE d[k]]

EmptyDict == [k \in {} |-> 0]

(***************************************************************************)
(* Text.  A str is a sequence of tokens; " " is a run of white space.      *)
(***************************************************************************)
\* str.lower() of one token
LowerWord(w) ==
    CASE w = "LAPORAN" -> "laporan"
      [] w = "Saldo"   -> "saldo"
      [] w = "Bayar"   -> "bayar"
      [] OTHER         -> w

Lower(text) == [i \in 1..Len(text) |-> LowerWord(text[i])]

\* the keywords that occur as substrings of a lower-case token
KeywordsIn(w) ==
    CASE w = "beli"     -> {"beli"}
      [] w = "bayar"    -> {"bayar"}
      [] w = "terima"   -> {"terima"}
      [] w = "transfer" -> {"transfer"}
      [] w = "outfit"   -> {"tf"}
      [] w = "rokok"    -> {"rokok"}
      [] w = "kopi"     -> {"kopi"}
      [] w = "bensin"   -> {"bensin"}
      [] w = "saldo"    -> {"saldo"}
      [] w = "saldoku"  -> {"saldo"}
      [] w = "laporan"  -> {"laporan"}
      [] w = "help"     -> {"help"}
      [] w = "bantuan"  -> {"bantuan"}
      [] OTHER          -> {}

\* `keyword in text` for a lower-case text
Contains(text, keyword) == \E i \in 1..Len(text) : keyword \in KeywordsIn(text[i])

\* any(word in text for word in words)
ContainsAny(text, words) == \E k \in words : Contains(text, k)

\* the integer a token's digit run denotes, -1 when it has no digit
DigitsOf(w) ==
    CASE w = "1" -> 1
      [] w = "2" -> 2
      [] w = "3" -> 3
      [] OTHER   -> -1

\* text.strip() is not empty
StripNonEmpty(text) == \E i \in 1..Len(text) : text[i] # " "

(***************************************************************************)
(* GeminiService._fallback_parse                                           *)
(***************************************************************************)
\* amounts = re.findall(r'\d+', message_text); int(amounts[-1]) if amounts else 0
LastAmount(message_text) ==
    LET idx == {i \in 1..Len(message_text) : DigitsOf(message_text[i]) >= 0}
    IN  IF idx = {} THEN 0
        ELSE DigitsOf(message_text[CHOOSE i \in idx : \A j \in idx : j <= i])

InWords == {"tf", "transfer", "terima", "dari", "masuk"}
OutWords == {"beli", "bayar", "keluar", "habis"}

\* variant: the outflow keywords are looked for first
FallbackTipeOutFirst(message_lower) ==
    IF ContainsAny(message_lower, OutWords) THEN "OUT"
    ELSE IF ContainsAny(message_lower, InWords) THEN "IN"
    ELSE "INFO"

FallbackTipe(message_lower) ==
    IF ContainsAny(message_lower, InWords) THEN "IN"
    ELSE IF ContainsAny(message_lower, OutWords) THEN "OUT"
    ELSE "INFO"

FallbackKategori(message_lower) ==
    IF ContainsAny(message_lower, {"makan", "minum", "kopi", "restoran", "snack"})
        THEN "Makanan & Minuman"
    ELSE IF ContainsAny(message_lower, {"bensin", "parkir", "tol", "gojek", "grab", "ojek"})
        THEN "Transportasi"
    ELSE IF ContainsAny(message_lower, {"hotel", "karaoke", "spa", "pijat"})
        THEN "Hiburan"
    ELSE IF ContainsAny(message_lower, {"rokok", "parfum", "hadiah", "baju", "sepatu"})
        THEN "Pribadi"
    ELSE IF ContainsAny(message_lower, {"sabun", "deterjen", "tissue", "rumah"})
        THEN "Rumah Tangga"
    ELSE IF ContainsAny(message_lower, {"transfer", "top up", "kirim", "tf"})
        THEN "Keuangan"
    ELSE "Lainnya"

\* the text of a reply the bot composes itself
BotText(kind, text, amount, kategori) ==
    [kind |-> kind, text |-> text, amount |-> amount, kategori |-> kategori]

\* variant: the keyword classification leaves the category out
FallbackParseWithoutCategory(message_text) ==
    LET message_lower == Lower(message_text)
        amount == LastAmount(message_text)
    IN  [deskripsi     |-> message_text,
         jumlah        |-> JInt(amount),
         tipe          |-> FallbackTipe(message_lower),
         bukti         |-> "",
         tanggapan_bot |-> BotText("dicatat", message_text, amount, "Lainnya")]

FallbackParse(message_text) ==
    LET message_lower == Lower(message_text)
        amount == LastAmount(message_text)
        kategori == FallbackKategori(message_lower)
    IN  [deskripsi     |-> message_text,
         jumlah        |-> JInt(amount),
         tipe          |-> FallbackTipe(message_lower),
         kategori      |-> kategori,
         bukti         |-> "",
         tanggapan_bot |-> BotText("dicatat", message_text, amount, kategori)]

(***************************************************************************)
(* The classifier's HTTP answer.  kind is "exception" (requests.post       *)
(* raised), "non200", "no_text" (200 without candidates[0]...text) or      *)
(* "text" (200 with a text).  The text is a token sequence over "{", "}",  *)
(* "kv" (a well-formed list of members, denoting the dict obj) and "txt"   *)
(* (anything else).                                                        *)
(***************************************************************************)
Call(kind, content, obj) == [kind |-> kind, content |-> content, obj |-> obj]

\* str.find / str.rfind of a one-character needle, 0-based, -1 when absent
Find(s, c) ==
    IF \E i \in 1..Len(s) : s[i] = c
    THEN (CHOOSE i \in 1..Len(s) : s[i] = c /\ \A j \in 1..(i - 1) : s[j] # c) - 1
    ELSE -1

RFind(s, c) ==
    IF \E i \in 1..Len(s) : s[i] = c
    THEN (CHOOSE i \in 1..Len(s) : s[i] = c /\ \A j \in (i + 1)..Len(s) : s[j] # c) - 1
    ELSE -1

\* s[a:b] for 0 <= a, 0 <= b <= len(s)
PySlice(s, a, b) == SubSeq(s, a + 1, b)

\* json.loads: ok is FALSE for JSONDecodeError
JsonLoads(json_str, obj) ==
    IF json_str = <<"{", "kv", "}">> THEN [ok |-> TRUE, value |-> obj]
    ELSE IF json_str = <<"{", "}">> THEN [ok |-> TRUE, value |-> EmptyDict]
    ELSE [ok |-> FALSE, value |-> EmptyDict]

\* variant: the bot's reply is not among the validated fields
RequiredFieldsWithoutReply == {"deskripsi", "jumlah", "tipe", "kategori"}

RequiredFields == {"deskripsi", "jumlah", "tipe", "kategori", "tanggapan_bot"}

\* what one of the two _analyze_* methods hands back to analyze_transaction;
\* calls lists the kinds of the classifier's answers to the posts it made
Returned(value, health, calls) ==
    [raised |-> FALSE, value |-> value, health |-> health, calls |-> calls]

\* the five lines that follow json.loads in both _analyze_* methods:
\* validate the required fields, else fall back
Validated(parsed, value, fallback, kind) ==
    IF ~parsed.ok THEN fallback
    ELSE IF RequiredFields \subseteq DOMAIN value
    THEN Returned(Some(value), TRUE, <<kind>>)
    ELSE fallback

\* variant: a failed call is answered with the keyword classification
AnalyzeTextOnlyFallingBack(message_text, call, health) ==
    Bind(Returned(Some(FallbackParse(message_text)), health, <<call.kind>>),
         LAMBDA fallback :
    IF call.kind # "text" THEN fallback
    ELSE
        LET content == call.content
            json_start == Find(content, "{")
            json_end == RFind(content, "}") + 1
        IN  IF json_start # -1 /\ json_end # -1
            THEN Bind(JsonLoads(PySlice(content, json_start, json_end), call.obj),
                      LAMBDA parsed : Validated(parsed, parsed.value, fallback, call.kind))
            ELSE fallback)

(***************************************************************************)
(* GeminiService._analyze_text_only                                        *)
(***************************************************************************)
AnalyzeTextOnly(message_text, call, health) ==
    IF call.kind = "exception" THEN Returned(NoResult, health, <<call.kind>>)
    ELSE IF call.kind = "non200" THEN Returned(NoResult, health, <<call.kind>>)
    ELSE IF call.kind = "no_text" THEN Returned(NoResult, health, <<call.kind>>)
    ELSE
    Bind(Returned(Some(FallbackParse(message_text)), health, <<call.kind>>),
         LAMBDA fallback :
        LET content == call.content
            json_start == Find(content, "{")
            json_end == RFind(content, "}") + 1
        IN  IF json_start # -1 /\ json_end # -1
            THEN Bind(JsonLoads(PySlice(content, json_start, json_end), call.obj),
                      LAMBDA parsed : Validated(parsed, parsed.value, fallback, call.kind))
            ELSE fallback)

(***************************************************************************)
(* GeminiService._analyze_with_image.  env.download: _download_image got   *)
(* the bytes; env.image: the multimodal call; env.text: the text-only call *)
(* made when the image path gives up.                                      *)
(***************************************************************************)
AnalyzeWithImage(message_text, media_url, env, health) ==
    IF ~env.download THEN AnalyzeTextOnly(message_text, env.text, health)
    ELSE IF env.image.kind \in {"exception", "non200", "no_text"}
    THEN Bind(AnalyzeTextOnly(message_text, env.text, health),
              LAMBDA t : Returned(t.value, t.health, <<env.image.kind>> \o t.calls))
    ELSE
    Bind(Returned(Some(FallbackParse(message_text)), health, <<env.image.kind>>),
         LAMBDA fallback :
        LET content == env.image.content
            json_start == Find(content, "{")
            json_end == RFind(content, "}") + 1
        IN  IF json_start # -1 /\ json_end # -1
            THEN Bind(JsonLoads(PySlice(content, json_start, json_end), env.image.obj),
                      LAMBDA parsed :
                        Validated(parsed, DictSet(parsed.value, "bukti", media_url.s),
                                  fallback, env.image.kind))
            ELSE fallback)

(***************************************************************************)
(* GeminiService.analyze_transaction: for attempt in range(3).  envs[k] is *)
(* what the k-th attempt meets.  An attempt is repeated only when the      *)
(* method it calls raises.                                                 *)
(***************************************************************************)
GeminiAttempts == 3

RECURSIVE AnalyzeAttempt(_, _, _, _, _, _)
AnalyzeAttempt(attempt, message_text, media_url, envs, health, calls) ==
    Bind(IF Truthy(media_url)
         THEN AnalyzeWithImage(message_text, media_url, envs[attempt + 1], health)
         ELSE AnalyzeTextOnly(message_text, envs[attempt + 1].text, health),
         LAMBDA r :
        IF ~r.raised
        THEN [value |-> r.value, health |-> r.health, attempts |-> attempt + 1,
              calls |-> calls \o r.calls]
        ELSE IF attempt = GeminiAttempts - 1
        THEN [value |-> NoResult, health |-> FALSE, attempts |-> attempt + 1,
              calls |-> calls \o r.calls]
        ELSE AnalyzeAttempt(attempt + 1, message_text, media_url, envs, r.health,
                            calls \o r.calls))

AnalyzeTransaction(message_text, media_url, envs, health) ==
    AnalyzeAttempt(0, message_text, media_url, envs, health, <<>>)

(***************************************************************************)
(* SheetsService.save_transaction.  An attempt's outcome is "ok",          *)
(* "append_fails" (append_row raised) or "resize_fails" (the row was       *)
(* appended and columns_auto_resize raised).                               *)
(***************************************************************************)
SheetsAttempts == 3

\* row_data of sheets_service.py
SheetsRow(transaction_data) ==
    << Get(transaction_data, "tanggal", ""),
       Get(transaction_data, "deskripsi", ""),
       Get(transaction_data, "jumlah", JInt(0)),
       Get(transaction_data, "tipe", "INFO"),
       Get(transaction_data, "kategori", "Lainnya"),
       Get(transaction_data, "saldo", 0),
       Get(transaction_data, "bukti", ""),
       Get(transaction_data, "private", "No") >>

\* variant: the second failure is taken for the last
RECURSIVE SaveAttemptGivingUpEarly(_, _, _, _)
SaveAttemptGivingUpEarly(attempt, row_data, outcomes, rows) ==
    Bind(IF outcomes[attempt + 1] = "append_fails" THEN rows ELSE Append(rows, row_data),
         LAMBDA after :
        IF outcomes[attempt + 1] = "ok"
        THEN [ret |-> TRUE, rows |-> after, health |-> TRUE, attempts |-> attempt + 1]
        ELSE IF attempt = SheetsAttempts - 2
        THEN [ret |-> FALSE, rows |-> after, health |-> FALSE, attempts |-> attempt + 1]
        ELSE SaveAttemptGivingUpEarly(attempt + 1, row_data, outcomes, after))

RECURSIVE SaveAttempt(_, _, _, _)
SaveAttempt(attempt, row_data, outcomes, rows) ==
    Bind(IF outcomes[attempt + 1] = "append_fails" THEN rows ELSE Append(rows, row_data),
         LAMBDA after :
        IF outcomes[attempt + 1] = "ok"
        THEN [ret |-> TRUE, rows |-> after, health |-> TRUE, attempts |-> attempt + 1]
        ELSE IF attempt = SheetsAttempts - 1
        THEN [ret |-> FALSE, rows |-> after, health |-> FALSE, attempts |-> attempt + 1]
        ELSE SaveAttempt(attempt + 1, row_data, outcomes, after))

\* env.reconnect: _initialize_connection obtains the worksheet
SheetsSaveTransaction(transaction_data, env, rows, health, connected) ==
    IF ~connected /\ ~env.reconnect
    THEN [ret |-> FALSE, rows |-> rows, health |-> FALSE, attempts |-> 0,
          worksheet |-> FALSE]
    ELSE Bind(SheetsRow(transaction_data), LAMBDA row_data :
         Bind(SaveAttempt(0, row_data, env.outcomes, rows), LAMBDA r :
              [ret |-> r.ret, rows |-> r.rows, health |-> r.health,
               attempts |-> r.attempts, worksheet |-> TRUE]))

(***************************************************************************)
(* BackupService.save_transaction.  csv.writer writes str(value) for each  *)
(* cell: an int and the str of its digits give the same cell.              *)
(***************************************************************************)
CsvInt(n) == [csv |-> "number", n |-> n, s |-> ""]
CsvText(s) == [csv |-> "text", n |-> 0, s |-> s]

\* the cell written for an amount taken from the classifier's JSON
CsvAmount(v) ==
    IF v.t = "int" THEN CsvInt(v.n)
    ELSE IF DigitsOf(v.s) >= 0 THEN CsvInt(DigitsOf(v.s))
    ELSE CsvText(v.s)

\* variant: the balance before the transaction is written
BackupRowStaleBalance(transaction_data) ==
    LET jumlah == Get(transaction_data, "jumlah", JInt(0))
        tipe == Get(transaction_data, "tipe", "INFO")
        saldo == Get(transaction_data, "saldo", 0)
    IN  << Get(transaction_data, "tanggal", ""),
           Get(transaction_data, "deskripsi", ""),
           CsvAmount(jumlah),
           tipe,
           Get(transaction_data, "kategori", "Lainnya"),
           CsvInt(IF tipe = "IN" THEN saldo - jumlah.n
                  ELSE IF tipe = "OUT" THEN saldo + jumlah.n ELSE saldo),
           Get(transaction_data, "bukti", ""),
           Get(transaction_data, "private", "No") >>

\* row_data of backup_service.py, as writerow writes it
BackupRow(transaction_data) ==
    << Get(transaction_data, "tanggal", ""),
       Get(transaction_data, "deskripsi", ""),
       CsvAmount(Get(transaction_data, "jumlah", JInt(0))),
       Get(transaction_data, "tipe", "INFO"),
       Get(transaction_data, "kategori", "Lainnya"),
       CsvInt(Get(transaction_data, "saldo", 0)),
       Get(transaction_data, "bukti", ""),
       Get(transaction_data, "private", "No") >>

\* ok: the file could be opened and written
BackupSaveTransaction(transaction_data, ok, rows) ==
    IF ok THEN [ret |-> TRUE, rows |-> Append(rows, BackupRow(transaction_data))]
    ELSE [ret |-> FALSE, rows |-> rows]

(***************************************************************************)
(* main.py: the replies, process_transaction and handle_special_commands.  *)
(* s is the state the handler starts from:                                 *)
(*   [balance, count, errors, ledger, backup, ghealth, shealth, ws, now]   *)
(***************************************************************************)
Fixed(kind) == BotText(kind, <<>>, 0, "")

NoAi == [done |-> FALSE, image |-> FALSE, value |-> NoResult, attempts |-> 0,
         calls |-> <<>>]
NoSave == [called |-> FALSE, connected |-> FALSE, ret |-> FALSE, attempts |-> 0]
NoBak == [called |-> FALSE, ret |-> FALSE]

\* what a handler leaves behind when it changes nothing
Kept(s) ==
    [balance |-> s.balance, count |-> s.count, errors |-> s.errors,
     ledger |-> s.ledger, backup |-> s.backup, ghealth |-> s.ghealth,
     shealth |-> s.shealth, ws |-> s.ws,
     ai |-> NoAi, save |-> NoSave, bak |-> NoBak,
     reply |-> Fixed("none"), handler |-> "none", sent |-> <<>>,
     code |-> 200, status |-> "success"]

\* process_transaction from the save on; data is transaction_data with the
\* new balance, analysed what the classification left behind
SaveAndReply(ai_result, data, env, s, analysed) ==
    Bind(SheetsSaveTransaction(data, env.sheets, s.ledger, s.shealth, s.ws),
         LAMBDA sv :
    Bind([analysed EXCEPT
            !.balance = data.saldo,
            !.ledger = sv.rows,
            !.shealth = sv.health,
            !.ws = sv.worksheet,
            !.save = [called |-> TRUE, connected |-> s.ws,
                      ret |-> sv.ret, attempts |-> sv.attempts]],
         LAMBDA saved :
        IF sv.ret
        THEN Bind(BackupSaveTransaction(data, env.backup_ok, s.backup), LAMBDA b :
                  [saved EXCEPT
                     !.count = s.count + 1,
                     !.backup = b.rows,
                     !.bak = [called |-> TRUE, ret |-> b.ret],
                     !.reply = Get(ai_result, "tanggapan_bot", Fixed("berhasil_dicatat"))])
        ELSE [saved EXCEPT !.reply = Fixed("gagal_menyimpan")]))

\* env: [gemini: three attempt environments, sheets, backup_ok]
ProcessTransaction(message_text, media_url, env, s) ==
    Bind(AnalyzeTransaction(message_text, media_url, env.gemini, s.ghealth),
         LAMBDA a :
    Bind([Kept(s) EXCEPT
            !.ghealth = a.health,
            !.ai = [done |-> TRUE, image |-> Truthy(media_url), value |-> a.value,
                    attempts |-> a.attempts, calls |-> a.calls]],
         LAMBDA analysed :
    IF ~a.value.some
    THEN [analysed EXCEPT !.reply = Fixed("gagal_menganalisis")]
    ELSE
    Bind(a.value.d, LAMBDA ai_result :
    Bind(Get(ai_result, "tipe", "INFO"), LAMBDA tipe :
    Bind(Get(ai_result, "jumlah", JInt(0)), LAMBDA jumlah :
    Bind([tanggal   |-> s.now,
          deskripsi |-> Get(ai_result, "deskripsi", <<>>),
          jumlah    |-> jumlah,
          tipe      |-> tipe,
          kategori  |-> Get(ai_result, "kategori", "Lainnya"),
          saldo     |-> s.balance,
          bukti     |-> Get(ai_result, "bukti", ""),
          private   |-> "No"],
         LAMBDA transaction_data :
        IF tipe \in {"IN", "OUT"} /\ jumlah.t # "int"
        \* current_balance += <str> raises TypeError: the except branch
        THEN [analysed EXCEPT !.reply = Fixed("kesalahan_sistem")]
        ELSE SaveAndReply(ai_result,
                          [transaction_data EXCEPT
                             !.saldo = IF tipe = "IN" THEN s.balance + jumlah.n
                                       ELSE IF tipe = "OUT" THEN s.balance - jumlah.n
                                       ELSE s.balance],
                          env, s, analysed)))))))

\* generate_daily_report: the report text, which quotes the balance
GenerateDailyReport(balance) == BotText("laporan_harian", <<>>, balance, "")

\* variant: the balance is asked for before the report
HandleSpecialCommandsBalanceFirst(message_text, balance) ==
    LET message_lower == Lower(message_text)
    IN  IF Contains(message_lower, "saldo")
        THEN Some(BotText("saldo_terkini", <<>>, balance, ""))
        ELSE IF Contains(message_lower, "laporan hari ini") \/ Contains(message_lower, "laporan")
        THEN Some(GenerateDailyReport(balance))
        ELSE IF Contains(message_lower, "help") \/ Contains(message_lower, "bantuan")
        THEN Some(Fixed("bantuan"))
        ELSE NoResult

\* handle_special_commands: Some(reply) or None
HandleSpecialCommands(message_text, balance) ==
    LET message_lower == Lower(message_text)
    IN  IF Contains(message_lower, "laporan hari ini") \/ Contains(message_lower, "laporan")
        THEN Some(GenerateDailyReport(balance))
        ELSE IF Contains(message_lower, "saldo")
        THEN Some(BotText("saldo_terkini", <<>>, balance, ""))
        ELSE IF Contains(message_lower, "help") \/ Contains(message_lower, "bantuan")
        THEN Some(Fixed("bantuan"))
        ELSE NoResult

(***************************************************************************)
(* main.py: webhook.  A request is                                         *)
(*   [data: the body is a JSON object, sender, message, media_url]         *)
(***************************************************************************)
AdminNumber == "6282181151735"
BosNumber == "628115302098"
ALLOWED_NUMBERS == {<<AdminNumber>>, <<BosNumber>>}

\* sender.replace('+', '')
RemovePlus(sender) == SelectSeq(sender, LAMBDA c : c # "+")

\* variant: every reply goes to the administrator
PostToAdmin(phone, message) == [to |-> <<AdminNumber>>, body |-> message]

Post(phone, message) == [to |-> phone, body |-> message]

HandleWebhook(request, env, s) ==
    IF ~request.data
    THEN [Kept(s) EXCEPT !.code = 400, !.status = "error"]
    ELSE IF request.message.t # "str"
    \* message_text[:50] raises TypeError before the allow-list is consulted
    THEN [Kept(s) EXCEPT !.errors = s.errors + 1, !.code = 500, !.status = "error"]
    ELSE
    LET sender_phone == RemovePlus(request.sender)
        message_text == request.message.s
    IN  IF sender_phone \notin ALLOWED_NUMBERS
        THEN [Kept(s) EXCEPT
                !.sent = <<Post(sender_phone, Fixed("akses_ditolak"))>>,
                !.code = 403, !.status = "rejected"]
        ELSE
        Bind(HandleSpecialCommands(message_text, s.balance),
             LAMBDA special_response :
            IF special_response.some
            THEN [Kept(s) EXCEPT
                    !.handler = "command",
                    !.reply = special_response.d,
                    !.sent = <<Post(sender_phone, special_response.d)>>]
            ELSE IF StripNonEmpty(message_text)
            THEN Bind(ProcessTransaction(message_text, request.media_url, env, s),
                      LAMBDA p : [p EXCEPT !.handler = "pipeline",
                                           !.sent = <<Post(sender_phone, p.reply)>>])
            ELSE Kept(s))

\* variant: the balance of the oldest row is read
GetCurrentBalanceOfFirstRow(rows, connected, readable) ==
    IF ~connected THEN 0
    ELSE IF ~readable THEN 0
    ELSE IF rows # <<>> THEN rows[1][6]
    ELSE 0

\* SheetsService.get_current_balance; readable: get_all_records answered
GetCurrentBalance(rows, connected, readable) ==
    IF ~connected THEN 0
    ELSE IF ~readable THEN 0
    ELSE IF rows # <<>> THEN rows[Len(rows)][6]
    ELSE 0


(***************************************************************************)
(* drive_service.py: the evidence store.  A public link is made from the   *)
(* id of a file that was uploaded to the Drive folder.                     *)
(***************************************************************************)
\* DriveService.get_file_url: the webViewLink of an uploaded file
GetFileUrl(file_id) == <<"https://drive.google.com/file/d/", file_id, "/view">>

\* DriveService.get_direct_download_url
GetDirectDownloadUrl(file_id) ==
    <<"https://drive.google.com/uc?export=download&id=", file_id>>

\* DriveService.upload_image_from_url; env: [connected, download, upload],
\* upload is the id Drive gives the new file, "" when _upload_file gave up
UploadImageFromUrl(image_url, env, files) ==
    IF ~env.connected THEN [file_id |-> NoResult, files |-> files]
    ELSE IF ~env.download THEN [file_id |-> NoResult, files |-> files]
    ELSE IF env.upload = "" THEN [file_id |-> NoResult, files |-> files]
    ELSE [file_id |-> Some(env.upload), files |-> files \cup {env.upload}]

(***************************************************************************)
(* The inputs of the model.                                                *)
(***************************************************************************)
MediaUrl == "https://gateway/file/nota.jpg"

Stranger == "6280000000000"

Senders == {<<AdminNumber>>, <<"+", BosNumber>>, <<"+", Stranger>>}

Purchase == <<"beli", "rokok", "2">>

Messages == { <<" ">>, <<"Saldo">>, <<"bayar", "saldo", "1">>, Purchase }

NoRequest == [data |-> FALSE, sender |-> <<>>, message |-> Null, media_url |-> Null]

\* the bodies posted to /webhook: any sender with or without a text, and
\* the administrator with a photo of a receipt
Requests ==
    {NoRequest}
    \cup [data : {TRUE}, sender : Senders,
          message : {Null} \cup {JStr(m) : m \in Messages},
          media_url : {Null}]
    \cup [data : {TRUE}, sender : {<<AdminNumber>>},
          message : {JStr(Purchase)}, media_url : {JStr(MediaUrl)}]

AiReply == Fixed("dari_ai")

ObjIn ==
    [deskripsi |-> <<"gaji">>, jumlah |-> JInt(3), tipe |-> "IN",
     kategori |-> "Keuangan", tanggapan_bot |-> AiReply]
ObjInfo ==
    [deskripsi |-> <<"catatan">>, jumlah |-> JStr("dua"), tipe |-> "INFO",
     kategori |-> "Belanja", bukti |-> "", tanggapan_bot |-> AiReply]
ObjOutText ==
    [deskripsi |-> <<"rokok">>, jumlah |-> JStr("dua"), tipe |-> "OUT",
     kategori |-> "Pribadi", bukti |-> "", tanggapan_bot |-> AiReply]
ObjPartial ==
    [deskripsi |-> <<"rokok">>, jumlah |-> JInt(2), tipe |-> "OUT",
     kategori |-> "Pribadi"]

CallException == Call("exception", <<>>, EmptyDict)
CallNon200 == Call("non200", <<>>, EmptyDict)
CallNoText == Call("no_text", <<>>, EmptyDict)
CallJunk == Call("text", <<"txt">>, EmptyDict)
CallObj(o) == Call("text", <<"{", "kv", "}">>, o)

AttemptEnv(download, image, text) ==
    [download |-> download, image |-> image, text |-> text]

\* what the classifier does to a request of the webhook model
TextEnvs ==
    {AttemptEnv(FALSE, CallException, c) :
        c \in {CallException, CallNon200, CallJunk, CallObj(ObjIn),
               CallObj(ObjOutText)}}
ImageEnvs ==
    { AttemptEnv(TRUE, CallObj(ObjIn), CallException),
      AttemptEnv(TRUE, CallJunk, CallException),
      AttemptEnv(TRUE, CallNon200, CallObj(ObjInfo)),
      AttemptEnv(FALSE, CallException, CallException) }

SheetsOutcomes ==
    { <<"ok", "ok", "ok">>,
      <<"resize_fails", "ok", "ok">>,
      <<"append_fails", "append_fails", "append_fails">> }

\* the request reaches process_transaction
Classified(request) ==
    /\ request.data
    /\ request.message.t = "str"
    /\ RemovePlus(request.sender) \in ALLOWED_NUMBERS
    /\ ~HandleSpecialCommands(request.message.s, 0).some
    /\ StripNonEmpty(request.message.s)

QuietSheets == [reconnect |-> TRUE, outcomes |-> <<"ok", "ok", "ok">>]

QuietEnv ==
    [gemini |-> <<AttemptEnv(FALSE, CallException, CallException),
                  AttemptEnv(FALSE, CallException, CallException),
                  AttemptEnv(FALSE, CallException, CallException)>>,
     sheets |-> QuietSheets,
     backup_ok |-> TRUE]

\* the classification reaches SheetsService.save_transaction
ReachesSave(request, g) ==
    \E a \in {AnalyzeTransaction(request.message.s, request.media_url, <<g, g, g>>, TRUE)} :
        /\ a.value.some
        /\ \/ Get(a.value.d, "tipe", "INFO") \notin {"IN", "OUT"}
           \/ Get(a.value.d, "jumlah", JInt(0)).t = "int"

\* the spreadsheet's and the file system's answers that make a difference
StoreEnvs(connected) ==
    { [sheets |-> [reconnect |-> TRUE, outcomes |-> o], backup_ok |-> b] :
        o \in SheetsOutcomes \ {<<"append_fails", "append_fails", "append_fails">>},
        b \in BOOLEAN }
    \cup { [sheets |-> [reconnect |-> TRUE,
                        outcomes |-> <<"append_fails", "append_fails", "append_fails">>],
            backup_ok |-> TRUE] }
    \cup ( IF connected THEN {}
           ELSE { [sheets |-> [reconnect |-> FALSE, outcomes |-> <<"ok", "ok", "ok">>],
                   backup_ok |-> TRUE] } )

\* the environments that make a difference to this request in this state
EnvsFor(request, connected) ==
    IF ~Classified(request) THEN {QuietEnv}
    ELSE LET gs == IF Truthy(request.media_url) THEN ImageEnvs ELSE TextEnvs
         IN  { [gemini |-> <<g, g, g>>, sheets |-> QuietSheets, backup_ok |-> TRUE] :
                 g \in {h \in gs : ~ReachesSave(request, h)} }
             \cup
             { [gemini |-> <<g, g, g>>, sheets |-> e.sheets, backup_ok |-> e.backup_ok] :
                 g \in {h \in gs : ReachesSave(request, h)},
                 e \in StoreEnvs(connected) }

(***************************************************************************)
(* SchedulerService (scheduler.py) on the wall clock.  An instant is a day *)
(* (day 0 is a Sunday) and one of the times of day that the schedules      *)
(* name; the minutes between two of them are polls that find nothing due.  *)
(* The schedule library is not part of the repository: whether its Job     *)
(* has a unit 'month' is an input of the construction, and a job without   *)
(* a time of day comes due one period after it was scheduled.              *)
(***************************************************************************)
MaxDays == 8

DayTimes == <<"00:00", "01:00", "06:00", "08:00", "23:50">>

SlotOf(at_time) == CHOOSE k \in 1..Len(DayTimes) : DayTimes[k] = at_time

Instant(day, slot) == [day |-> day, slot |-> slot]

Before(a, b) == a.day < b.day \/ (a.day = b.day /\ a.slot < b.slot)

NextInstant(now) ==
    IF now.slot < Len(DayTimes) THEN Instant(now.day, now.slot + 1)
    ELSE Instant(now.day + 1, 1)

DaysInMonth == 30

\* schedule.Job._schedule_next_run: the first instant after now that the
\* unit, the start day and the time of day allow
ScheduleNextRun(job, now) ==
    IF job.unit = "days" THEN
        IF SlotOf(job.at_time) > now.slot THEN Instant(now.day, SlotOf(job.at_time))
        ELSE Instant(now.day + 1, SlotOf(job.at_time))
    ELSE IF job.unit = "weeks" THEN
        Bind(CHOOSE d \in now.day..(now.day + 7) :
                 /\ d % 7 = job.start_day
                 /\ Before(now, Instant(d, SlotOf(job.at_time)))
                 /\ \A e \in now.day..(d - 1) :
                        ~(e % 7 = job.start_day /\ Before(now, Instant(e, SlotOf(job.at_time)))),
             LAMBDA d : Instant(d, SlotOf(job.at_time)))
    ELSE Instant(now.day + DaysInMonth, now.slot)

\* schedule.every().<unit>.at(<time>).do(<callback>)
Job(every, start_day, at_time, job_func, now) ==
    Bind([unit |-> every, start_day |-> start_day, at_time |-> at_time,
          job_func |-> job_func],
         LAMBDA j : [unit |-> j.unit, start_day |-> j.start_day, at_time |-> j.at_time,
                     job_func |-> j.job_func, next_run |-> ScheduleNextRun(j, now)])

Sunday == 0

\* SchedulerService._setup_schedules: four jobs, then every().month
SetupSchedules(now, month_unit) ==
    Bind(<< Job("days", -1, "23:50", "_send_daily_report", now),
            Job("days", -1, "06:00", "_send_balance_reminder", now),
            Job("days", -1, "00:00", "_send_system_report", now),
            Job("weeks", Sunday, "01:00", "_weekly_backup", now) >>,
         LAMBDA four :
            IF month_unit
            THEN [raised |-> FALSE,
                  jobs |-> Append(four, Job("months", -1, "", "_send_monthly_insights", now))]
            ELSE [raised |-> TRUE, jobs |-> four])

\* schedule.run_pending: every job whose next run is not after now runs,
\* earliest first, and is scheduled again
RECURSIVE RunPending(_, _, _)
RunPending(jobs, now, ran) ==
    Bind({i \in 1..Len(jobs) : ~Before(now, jobs[i].next_run)},
         LAMBDA due :
            IF due = {} THEN [jobs |-> jobs, ran |-> ran]
            ELSE Bind(CHOOSE i \in due :
                          \A k \in due : /\ ~Before(jobs[k].next_run, jobs[i].next_run)
                                         /\ (jobs[k].next_run = jobs[i].next_run => i <= k),
                      LAMBDA i :
                          RunPending([jobs EXCEPT ![i].next_run = ScheduleNextRun(jobs[i], now)],
                                     now, Append(ran, jobs[i].job_func))))

\* SchedulerService.get_schedule_info()['tasks']
ScheduleInfoTasks ==
    << [name |-> "Daily Report", time |-> "23:50"],
       [name |-> "Balance Reminder", time |-> "06:00"],
       [name |-> "System Report", time |-> "00:00"],
       [name |-> "Weekly Backup", time |-> "Sunday 01:00"],
       [name |-> "Monthly Insights", time |-> "1st 08:00"] >>

(***************************************************************************)
(* The webhook model.                                                      *)
(***************************************************************************)
NoUnit == [service |-> "none"]

NoScheduler == [phase |-> "none"]

NoSync == [called |-> FALSE]

NoThreads == <<>>

NoReturn == [returned |-> FALSE]

\* backups/ holds the transactions file only
NoFiles == [exists |-> TRUE, mtime |-> 0, files |-> <<>>]

\* the services right after construction, no request received yet
\* the ledger as an earlier run of the program left it
EarlierLedger ==
    << <<0, <<"terima", "gaji", "1">>, JInt(1), "IN", "Lainnya", 1, "", "No">>,
       <<0, <<"beli", "rokok", "3">>, JInt(3), "OUT", "Pribadi", -2, "", "No">> >>

\* nothing has been received or called yet
Unused ==
    /\ started = FALSE
    /\ current_balance = 0
    /\ transaction_count = 0
    /\ error_count = 0
    /\ gemini_health = TRUE
    /\ clock = 0
    /\ req = NoRequest
    /\ resp = [code |-> 0, status |-> "none"]
    /\ handler = "none"
    /\ sent = <<>>
    /\ ai = NoAi
    /\ save = NoSave
    /\ bak = NoBak
    /\ drive_files = {}

Fresh ==
    /\ Unused
    /\ backup_csv = <<>>

\* the parts of the program that a specification leaves out
Apart ==
    /\ scheduler = NoScheduler
    /\ sync = NoSync
    /\ threads = NoThreads
    /\ result = NoReturn
    /\ backup_dir = NoFiles

Init ==
    /\ Fresh
    /\ Apart
    /\ sheets_health \in BOOLEAN
    /\ worksheet = sheets_health
    /\ ledger \in IF worksheet THEN {<<>>, EarlierLedger} ELSE {<<>>}
    /\ unit = NoUnit

\* main(): SchedulerService() is constructed and started, the balance is
\* loaded, then app.run() starts serving; an exception ends the process
Main ==
    /\ ~started
    /\ unit = NoUnit
    /\ scheduler = NoScheduler
    /\ \E month_unit \in BOOLEAN, readable \in BOOLEAN :
       \E o \in {SetupSchedules(Instant(0, 1), month_unit)} :
          IF o.raised
          THEN /\ scheduler' = [phase |-> "raised"]
               /\ UNCHANGED <<started, current_balance, unit>>
          ELSE /\ scheduler' = [phase |-> "started"]
               /\ current_balance' = GetCurrentBalance(ledger, worksheet, readable)
               /\ started' = TRUE
               /\ unit' = [service |-> "main", readable |-> readable]
    /\ UNCHANGED <<transaction_count, error_count, ledger, backup_csv,
                   gemini_health, sheets_health, worksheet, clock, req, resp,
                   handler, sent, ai, save, bak, drive_files, sync, threads, result,
                   backup_dir>>

State ==
    [balance |-> current_balance, count |-> transaction_count,
     errors |-> error_count, ledger |-> ledger, backup |-> backup_csv,
     ghealth |-> gemini_health, shealth |-> sheets_health, ws |-> worksheet,
     now |-> clock + 1]

\* one POST /webhook with a request of the set, handled from start to end
Serve(requests) ==
    /\ started
    /\ clock < MaxRequests
    /\ \E request \in requests :
       \E env \in EnvsFor(request, worksheet) :
       \E o \in {HandleWebhook(request, env, State)} :
              /\ req' = request
              /\ resp' = [code |-> o.code, status |-> o.status]
              /\ handler' = o.handler
              /\ sent' = o.sent
              /\ ai' = o.ai
              /\ save' = o.save
              /\ bak' = o.bak
              /\ current_balance' = o.balance
              /\ transaction_count' = o.count
              /\ error_count' = o.errors
              /\ ledger' = o.ledger
              /\ backup_csv' = o.backup
              /\ gemini_health' = o.ghealth
              /\ sheets_health' = o.shealth
              /\ worksheet' = o.ws
    /\ clock' = clock + 1
    /\ UNCHANGED <<started, drive_files, unit, scheduler, sync, threads, result,
                   backup_dir>>

Webhook == Serve(Requests)

Next == Main \/ Webhook

Spec == Init /\ [][Next]_vars

(***************************************************************************)
(* The webhook on messages made of the command words, in any order and in  *)
(* either case, alone or inside a longer word.                             *)
(***************************************************************************)
CommandWords == {"laporan", "LAPORAN", "Saldo", "saldoku", "help", "bantuan"}

CommandRequests ==
    [data : {TRUE}, sender : Senders,
     message : {JStr(m) : m \in [1..1 -> CommandWords] \cup [1..2 -> CommandWords]
                                  \cup {Purchase}},
     media_url : {Null}]

CommandWebhook == Serve(CommandRequests)

NextCommands == Main \/ CommandWebhook

SpecCommands == Init /\ [][NextCommands]_vars

(***************************************************************************)
(* GeminiService.analyze_transaction called on its own, on any answer of   *)
(* the classifier.                                                         *)
(***************************************************************************)
Income == <<"terima", "gaji", "1">>

Contents ==
    { <<>>, <<"txt">>, <<"{", "kv", "}">>, <<"txt", "{", "kv", "}", "txt">>,
      <<"{", "kv">>, <<"kv", "}">>, <<"}", "txt", "{">>, <<"{", "txt", "}">>,
      <<"{", "}">>, <<"{", "kv", "}", "txt", "}">>,
      <<"{", "kv", "}", "{", "kv", "}">> }

GeminiCalls ==
    {CallException, CallNon200, CallNoText}
    \cup {Call("text", c, o) : c \in Contents, o \in {ObjIn, ObjInfo, ObjPartial}}

\* what the second and the third attempt would meet
LaterEnvs ==
    { AttemptEnv(TRUE, CallObj(ObjIn), CallObj(ObjIn)),
      AttemptEnv(FALSE, CallException, CallException) }

GeminiUnits ==
    { [service |-> "gemini", message_text |-> m, media_url |-> Null,
       envs |-> <<AttemptEnv(FALSE, CallException, c), l, l>>] :
         m \in {Purchase, Income, <<"kopi">>, <<"Bayar", "transfer", "1">>,
                <<"beli", "outfit", "2">>},
         c \in GeminiCalls, l \in LaterEnvs }
    \cup
    { [service |-> "gemini", message_text |-> m, media_url |-> JStr(MediaUrl),
       envs |-> <<AttemptEnv(d, i, t), l, l>>] :
         m \in {Purchase, Income}, d \in BOOLEAN, i \in GeminiCalls,
         t \in {CallException, CallNon200, CallJunk, CallObj(ObjIn), CallObj(ObjPartial)},
         l \in LaterEnvs }

InitGemini ==
    /\ Fresh
    /\ Apart
    /\ ledger = <<>>
    /\ sheets_health = FALSE
    /\ worksheet = FALSE
    /\ unit \in GeminiUnits

\* gemini.analyze_transaction(message_text, media_url)
AnalyzeCall ==
    /\ unit.service = "gemini"
    /\ ~ai.done
    /\ \E a \in {AnalyzeTransaction(unit.message_text, unit.media_url, unit.envs,
                                      gemini_health)} :
           /\ ai' = [done |-> TRUE, image |-> Truthy(unit.media_url),
                     value |-> a.value, attempts |-> a.attempts, calls |-> a.calls]
           /\ gemini_health' = a.health
    /\ UNCHANGED <<started, current_balance, transaction_count, error_count,
                   ledger, backup_csv, sheets_health, worksheet, clock, req,
                   resp, handler, sent, save, bak, drive_files, unit, scheduler, sync, threads, result,
                   backup_dir>>

NextGemini == AnalyzeCall

SpecGemini == InitGemini /\ [][NextGemini]_vars

(***************************************************************************)
(* SheetsService.save_transaction called on its own, on any run of         *)
(* outcomes of its three attempts.                                         *)
(***************************************************************************)
UnitData ==
    { [tanggal |-> 1, deskripsi |-> Purchase, jumlah |-> JInt(2), tipe |-> "OUT",
       kategori |-> "Pribadi", saldo |-> -2, bukti |-> "", private |-> "No"],
      [tanggal |-> 1, deskripsi |-> Income, jumlah |-> JInt(1), tipe |-> "IN",
       kategori |-> "Lainnya", saldo |-> 1, bukti |-> MediaUrl, private |-> "No"] }

EarlierRow == <<0, <<"kopi">>, JInt(0), "INFO", "Makanan & Minuman", 0, "", "No">>

SheetsUnits ==
    { [service |-> "sheets", data |-> d,
       env |-> [reconnect |-> r, outcomes |-> <<o1, o2, o3>>]] :
         d \in UnitData, r \in BOOLEAN,
         o1 \in {"ok", "append_fails", "resize_fails"},
         o2 \in {"ok", "append_fails", "resize_fails"},
         o3 \in {"ok", "append_fails", "resize_fails"} }

InitSheets ==
    /\ Fresh
    /\ Apart
    /\ ledger \in {<<>>, <<EarlierRow>>}
    /\ worksheet \in BOOLEAN
    /\ sheets_health \in {h \in BOOLEAN : h => worksheet}
    /\ unit \in SheetsUnits

\* sheets.save_transaction(transaction_data)
SaveCall ==
    /\ unit.service = "sheets"
    /\ ~save.called
    /\ \E sv \in {SheetsSaveTransaction(unit.data, unit.env, ledger, sheets_health,
                                          worksheet)} :
           /\ ledger' = sv.rows
           /\ sheets_health' = sv.health
           /\ worksheet' = sv.worksheet
           /\ save' = [called |-> TRUE, connected |-> worksheet, ret |-> sv.ret,
                       attempts |-> sv.attempts]
    /\ UNCHANGED <<started, current_balance, transaction_count, error_count,
                   backup_csv, gemini_health, clock, req, resp, handler, sent,
                   ai, bak, drive_files, unit, scheduler, sync, threads, result,
                   backup_dir>>

NextSheets == SaveCall

SpecSheets == InitSheets /\ [][NextSheets]_vars

(***************************************************************************)
(* SchedulerService constructed and started on its own, at any instant of  *)
(* a week.                                                                 *)
(***************************************************************************)
InitScheduler ==
    /\ Fresh
    /\ ledger = <<>>
    /\ sheets_health = FALSE
    /\ worksheet = FALSE
    /\ unit = NoUnit
    /\ sync = NoSync
    /\ threads = NoThreads
    /\ result = NoReturn
    /\ backup_dir = NoFiles
    /\ \E d \in 0..6, k \in 1..Len(DayTimes) :
          scheduler = [phase |-> "new", now |-> Instant(d, k), jobs |-> <<>>,
                       running |-> FALSE, ran |-> <<>>]

SchedulerUnchanged ==
    UNCHANGED <<started, current_balance, transaction_count, error_count, ledger,
                backup_csv, gemini_health, sheets_health, worksheet, clock, req,
                resp, handler, sent, ai, save, bak, drive_files, unit, sync, threads, result,
                   backup_dir>>

\* SchedulerService(): __init__ calls _setup_schedules
NewSchedulerService ==
    /\ scheduler.phase = "new"
    /\ \E month_unit \in BOOLEAN :
       \E o \in {SetupSchedules(scheduler.now, month_unit)} :
           scheduler' = [scheduler EXCEPT
                            !.phase = IF o.raised THEN "raised" ELSE "constructed",
                            !.jobs = o.jobs]
    /\ SchedulerUnchanged

\* SchedulerService.start()
SchedulerStart ==
    /\ scheduler.phase = "constructed"
    /\ ~scheduler.running
    /\ scheduler' = [scheduler EXCEPT !.running = TRUE]
    /\ SchedulerUnchanged

\* SchedulerService.stop()
SchedulerStop ==
    /\ scheduler.phase = "constructed"
    /\ scheduler.running
    /\ scheduler' = [scheduler EXCEPT !.running = FALSE]
    /\ SchedulerUnchanged

\* one turn of the loop of _run_scheduler: run_pending(), then sleep
RunScheduler ==
    /\ scheduler.phase = "constructed"
    /\ scheduler.running
    /\ scheduler.now.day < MaxDays
    /\ \E o \in {RunPending(scheduler.jobs, scheduler.now, <<>>)} :
           scheduler' = [scheduler EXCEPT !.jobs = o.jobs, !.ran = o.ran,
                                          !.now = NextInstant(scheduler.now)]
    /\ SchedulerUnchanged

\* the wall clock moves on while no thread polls
TimePasses ==
    /\ scheduler.phase \in {"raised", "constructed"}
    /\ ~scheduler.running
    /\ scheduler.now.day < MaxDays
    /\ scheduler' = [scheduler EXCEPT !.now = NextInstant(scheduler.now), !.ran = <<>>]
    /\ SchedulerUnchanged

NextScheduler ==
    NewSchedulerService \/ SchedulerStart \/ SchedulerStop \/ RunScheduler \/ TimePasses

SpecScheduler == InitScheduler /\ [][NextScheduler]_vars

(***************************************************************************)
(* BackupService.sync_with_sheets called on its own: the remote ledger is  *)
(* read through SheetsService.get_recent_transactions and every            *)
(* transaction whose key is not in the local file is appended to it.       *)
(***************************************************************************)
MaxRows == 2

SyncLimit == 1000

\* int(cell) succeeds
IntCell(v) == v.t = "int" \/ DigitsOf(v.s) >= 0

IntOf(v) == IF v.t = "int" THEN v.n ELSE DigitsOf(v.s)

\* records[-limit:] if len(records) > limit else records
LastRecords(records, limit) ==
    IF Len(records) > limit THEN SubSeq(records, Len(records) - limit + 1, Len(records))
    ELSE records

\* SheetsService.get_recent_transactions(limit); readable: get_all_records
\* does not raise
GetRecentTransactions(rows, connected, readable, limit) ==
    IF ~connected \/ ~readable THEN <<>>
    ELSE Bind(LastRecords(rows, limit),
              LAMBDA recent :
                 IF \E i \in 1..Len(recent) : ~IntCell(recent[i][3]) THEN <<>>
                 ELSE [i \in 1..Len(recent) |->
                          [tanggal |-> recent[i][1], deskripsi |-> recent[i][2],
                           jumlah |-> JInt(IntOf(recent[i][3])), tipe |-> recent[i][4],
                           kategori |-> recent[i][5], saldo |-> recent[i][6],
                           bukti |-> recent[i][7], private |-> recent[i][8]]])

\* BackupService.get_transactions(); readable: the file can be opened
BackupGetTransactions(rows, readable) ==
    IF ~readable THEN <<>>
    ELSE IF \E i \in 1..Len(rows) : rows[i][3].csv # "number" \/ rows[i][6].csv # "number"
    THEN <<>>
    ELSE [i \in 1..Len(rows) |->
             [tanggal |-> rows[i][1], deskripsi |-> rows[i][2], jumlah |-> rows[i][3].n,
              tipe |-> rows[i][4], kategori |-> rows[i][5], saldo |-> rows[i][6].n,
              bukti |-> rows[i][7], private |-> rows[i][8]]]

\* t['deskripsi'] + t['tanggal']: the date has a fixed width, so that two
\* keys are equal exactly when both parts are
SyncKey(deskripsi, tanggal) == <<deskripsi, tanggal>>

\* the loop over sheets_transactions, from the i-th on
RECURSIVE SyncLoop(_, _, _, _, _)
SyncLoop(sheets_transactions, i, local_descriptions, saves, r) ==
    IF i > Len(sheets_transactions) THEN r
    ELSE IF SyncKey(sheets_transactions[i].deskripsi, sheets_transactions[i].tanggal)
                \in local_descriptions
    THEN SyncLoop(sheets_transactions, i + 1, local_descriptions, saves, r)
    ELSE Bind(BackupSaveTransaction(sheets_transactions[i], saves[i], r.rows),
              LAMBDA b :
                 SyncLoop(sheets_transactions, i + 1, local_descriptions, saves,
                          [r EXCEPT !.rows = b.rows,
                                    !.synced = IF b.ret THEN @ + 1 ELSE @,
                                    !.errors = IF b.ret THEN @ ELSE @ + 1]))

\* BackupService.sync_with_sheets(sheets_service)
SyncWithSheets(local_rows, sheet_rows, env) ==
    Bind(BackupGetTransactions(local_rows, env.local_readable),
         LAMBDA local_transactions :
    Bind(GetRecentTransactions(sheet_rows, env.connected, env.readable, SyncLimit),
         LAMBDA sheets_transactions :
            SyncLoop(sheets_transactions, 1,
                     {SyncKey(local_transactions[k].deskripsi, local_transactions[k].tanggal) :
                         k \in 1..Len(local_transactions)},
                     env.saves,
                     [local_count |-> Len(local_transactions),
                      sheets_count |-> Len(sheets_transactions),
                      synced |-> 0, errors |-> 0, rows |-> local_rows])))

\* rows of the ledger as the pipeline writes them
SyncLedgerRows ==
    { <<1, Purchase, JInt(2), "OUT", "Pribadi", -2, "", "No">>,
      <<2, Income, JInt(1), "IN", "Lainnya", -1, "", "No">>,
      <<2, <<"catatan">>, JStr("dua"), "INFO", "Belanja", -1, "", "No">> }

UpTo(n, S) == UNION {[1..k -> S] : k \in 0..n}

SyncUnits ==
    { [service |-> "sync",
       env |-> [connected |-> c[1], readable |-> c[2], local_readable |-> l, saves |-> sv]] :
         c \in {<<TRUE, TRUE>>, <<TRUE, FALSE>>, <<FALSE, FALSE>>}, l \in BOOLEAN,
         sv \in [1..MaxRows -> BOOLEAN] }

InitSync ==
    /\ Unused
    /\ scheduler = NoScheduler
    /\ sync = NoSync
    /\ threads = NoThreads
    /\ result = NoReturn
    /\ backup_dir = NoFiles
    /\ ledger \in UpTo(MaxRows, SyncLedgerRows)
    /\ backup_csv \in UpTo(MaxRows, {<<r[1], r[2], CsvAmount(r[3]), r[4], r[5], CsvInt(r[6]),
                                      r[7], r[8]>> : r \in SyncLedgerRows})
    /\ unit \in SyncUnits
    /\ worksheet = unit.env.connected
    /\ sheets_health = worksheet

\* backup.sync_with_sheets(sheets)
SyncCall ==
    /\ unit.service = "sync"
    /\ ~sync.called
    /\ \E r \in {SyncWithSheets(backup_csv, ledger, unit.env)} :
           /\ backup_csv' = r.rows
           /\ sync' = [called |-> TRUE, before |-> backup_csv,
                       results |-> [local_count |-> r.local_count,
                                    sheets_count |-> r.sheets_count,
                                    synced |-> r.synced, errors |-> r.errors]]
    /\ UNCHANGED <<started, current_balance, transaction_count, error_count, ledger,
                   gemini_health, sheets_health, worksheet, clock, req, resp, handler,
                   sent, ai, save, bak, drive_files, unit, scheduler, threads,
                   result, backup_dir>>

\* backup.sync_with_sheets(sheets) once more, the ledger as it was; what the
\* stores and the file system do this time is drawn again
SyncAgain ==
    /\ unit.service = "sync"
    /\ sync.called
    /\ ~result.returned
    /\ \E readable \in {r \in BOOLEAN : r => worksheet}, local_readable \in BOOLEAN,
          saved \in BOOLEAN :
       \E env \in {[connected |-> worksheet, readable |-> readable,
                     local_readable |-> local_readable,
                     saves |-> [i \in 1..MaxRows |-> saved]]} :
       \E r \in {SyncWithSheets(backup_csv, ledger, env)} :
           /\ backup_csv' = r.rows
           /\ result' = [returned |-> TRUE, before |-> backup_csv, env |-> env,
                          results |-> [local_count |-> r.local_count,
                                       sheets_count |-> r.sheets_count,
                                       synced |-> r.synced, errors |-> r.errors]]
    /\ UNCHANGED <<started, current_balance, transaction_count, error_count, ledger,
                   gemini_health, sheets_health, worksheet, clock, req, resp, handler,
                   sent, ai, save, bak, drive_files, unit, scheduler, sync, threads,
                   backup_dir>>

NextSync == SyncCall \/ SyncAgain

SpecSync == InitSync /\ [][NextSync]_vars

(***************************************************************************)
(* Two request threads inside process_transaction.  app.run() serves each  *)
(* request on a thread of its own; the threads share the globals           *)
(* current_balance and transaction_count without a lock, so that a thread  *)
(* can be suspended between the read and the write of an augmented         *)
(* assignment and around every call to a service.                          *)
(***************************************************************************)
ThreadIds == {1, 2}

\* what analyze_transaction returned to each thread
ThreadResults == <<ObjIn, FallbackParse(Purchase)>>

\* the thread has not entered process_transaction yet
Entering(ai_result) ==
    [pc |-> "build", ai_result |-> ai_result, data |-> EmptyDict, loaded |-> 0,
     success |-> FALSE, reply |-> Fixed("none")]

InitThreads ==
    /\ started = TRUE
    /\ current_balance \in {0, 1}
    /\ transaction_count = 0
    /\ error_count = 0
    /\ gemini_health = TRUE
    /\ clock = 0
    /\ req = NoRequest
    /\ resp = [code |-> 0, status |-> "none"]
    /\ handler = "none"
    /\ sent = <<>>
    /\ ai = NoAi
    /\ save = NoSave
    /\ bak = NoBak
    /\ drive_files = {}
    /\ backup_csv = <<>>
    /\ ledger = <<>>
    /\ sheets_health = TRUE
    /\ worksheet = TRUE
    /\ scheduler = NoScheduler
    /\ sync = NoSync
    /\ \E saves \in [ThreadIds -> BOOLEAN] :
          unit = [service |-> "threads", start |-> current_balance, saves |-> saves]
    /\ threads = [t \in ThreadIds |-> Entering(ThreadResults[t])]
    /\ result = NoReturn
    /\ backup_dir = NoFiles

ThreadsUnchanged ==
    UNCHANGED <<started, error_count, gemini_health, sheets_health, worksheet, clock,
                req, resp, handler, sent, ai, save, bak, drive_files, unit, scheduler,
                sync, result, backup_dir>>

\* transaction_data = {...}: 'saldo' reads the global
BuildData(t) ==
    /\ threads[t].pc = "build"
    /\ \E ai_result \in {threads[t].ai_result} :
          threads' = [threads EXCEPT
             ![t].pc = IF Get(ai_result, "tipe", "INFO") \in {"IN", "OUT"} THEN "load"
                       ELSE "saldo",
             ![t].data = [tanggal   |-> 1,
                          deskripsi |-> Get(ai_result, "deskripsi", <<>>),
                          jumlah    |-> Get(ai_result, "jumlah", JInt(0)),
                          tipe      |-> Get(ai_result, "tipe", "INFO"),
                          kategori  |-> Get(ai_result, "kategori", "Lainnya"),
                          saldo     |-> current_balance,
                          bukti     |-> Get(ai_result, "bukti", ""),
                          private   |-> "No"]]
    /\ UNCHANGED <<current_balance, transaction_count, ledger, backup_csv>>
    /\ ThreadsUnchanged

\* current_balance += / -= ...: the global is read
LoadBalance(t) ==
    /\ threads[t].pc = "load"
    /\ threads' = [threads EXCEPT ![t].pc = "store", ![t].loaded = current_balance]
    /\ UNCHANGED <<current_balance, transaction_count, ledger, backup_csv>>
    /\ ThreadsUnchanged

\* current_balance += / -= ...: the sum is written to the global
StoreBalance(t) ==
    /\ threads[t].pc = "store"
    /\ current_balance' =
          IF threads[t].data.tipe = "IN" THEN threads[t].loaded + threads[t].data.jumlah.n
          ELSE threads[t].loaded - threads[t].data.jumlah.n
    /\ threads' = [threads EXCEPT ![t].pc = "saldo"]
    /\ UNCHANGED <<transaction_count, ledger, backup_csv>>
    /\ ThreadsUnchanged

\* transaction_data['saldo'] = current_balance
SetSaldo(t) ==
    /\ threads[t].pc = "saldo"
    /\ threads' = [threads EXCEPT ![t].pc = "save", ![t].data.saldo = current_balance]
    /\ UNCHANGED <<current_balance, transaction_count, ledger, backup_csv>>
    /\ ThreadsUnchanged

\* success = sheets.save_transaction(transaction_data)
SaveData(t) ==
    /\ threads[t].pc = "save"
    /\ IF unit.saves[t]
       THEN /\ ledger' = Append(ledger, SheetsRow(threads[t].data))
            /\ threads' = [threads EXCEPT ![t].pc = "count_load", ![t].success = TRUE]
       ELSE /\ ledger' = ledger
            /\ threads' = [threads EXCEPT ![t].pc = "done",
                                          ![t].reply = Fixed("gagal_menyimpan")]
    /\ UNCHANGED <<current_balance, transaction_count, backup_csv>>
    /\ ThreadsUnchanged

\* transaction_count += 1: the global is read
LoadCount(t) ==
    /\ threads[t].pc = "count_load"
    /\ threads' = [threads EXCEPT ![t].pc = "count_store", ![t].loaded = transaction_count]
    /\ UNCHANGED <<current_balance, transaction_count, ledger, backup_csv>>
    /\ ThreadsUnchanged

\* transaction_count += 1: the sum is written to the global
StoreCount(t) ==
    /\ threads[t].pc = "count_store"
    /\ transaction_count' = threads[t].loaded + 1
    /\ threads' = [threads EXCEPT ![t].pc = "backup"]
    /\ UNCHANGED <<current_balance, ledger, backup_csv>>
    /\ ThreadsUnchanged

\* backup.save_transaction(transaction_data), then the reply is returned
BackupData(t) ==
    /\ threads[t].pc = "backup"
    /\ backup_csv' = Append(backup_csv, BackupRow(threads[t].data))
    /\ threads' = [threads EXCEPT
                      ![t].pc = "done",
                      ![t].reply = Get(threads[t].ai_result, "tanggapan_bot",
                                       Fixed("berhasil_dicatat"))]
    /\ UNCHANGED <<current_balance, transaction_count, ledger>>
    /\ ThreadsUnchanged

NextThreads ==
    \E t \in ThreadIds :
        \/ BuildData(t)
        \/ LoadBalance(t)
        \/ StoreBalance(t)
        \/ SetSaldo(t)
        \/ SaveData(t)
        \/ LoadCount(t)
        \/ StoreCount(t)
        \/ BackupData(t)

SpecThreads == InitThreads /\ [][NextThreads]_vars

(***************************************************************************)
(* The reports read from the ledger: generate_daily_report (main.py) over  *)
(* SheetsService.get_daily_transactions, and get_monthly_summary.  In this *)
(* part the date of a row is <<year, month, day, time>>, "" is <<>>.       *)
(***************************************************************************)
\* str.startswith
StartsWith(text, prefix) ==
    Len(text) >= Len(prefix) /\ SubSeq(text, 1, Len(prefix)) = prefix

\* SheetsService.get_daily_transactions(date); readable: get_all_records
\* does not raise.  int() is applied to the rows of the date only.
GetDailyTransactions(rows, connected, readable, date) ==
    IF ~connected \/ ~readable THEN <<>>
    ELSE Bind(SelectSeq(rows, LAMBDA r : StartsWith(r[1], date)),
              LAMBDA daily :
                 IF \E i \in 1..Len(daily) : ~IntCell(daily[i][3]) THEN <<>>
                 ELSE [i \in 1..Len(daily) |->
                          [tanggal |-> daily[i][1], deskripsi |-> daily[i][2],
                           jumlah |-> IntOf(daily[i][3]), tipe |-> daily[i][4],
                           kategori |-> daily[i][5], saldo |-> daily[i][6],
                           bukti |-> daily[i][7], private |-> daily[i][8]]])

\* sum(t.get('jumlah', 0) for t in transactions if t.get('tipe') == tipe)
RECURSIVE SumOfType(_, _)
SumOfType(transactions, tipe) ==
    IF transactions = <<>> THEN 0
    ELSE (IF Head(transactions).tipe = tipe THEN Head(transactions).jumlah ELSE 0)
         + SumOfType(Tail(transactions), tipe)

\* generate_daily_report, given what get_daily_transactions returned
DailyReport(transactions, today, balance) ==
    IF transactions = <<>>
    THEN [kind |-> "laporan_harian", today |-> today, balance |-> balance, empty |-> TRUE]
    ELSE Bind(LastRecords(transactions, 5),
              LAMBDA latest :
                 [kind |-> "laporan_harian", today |-> today, balance |-> balance,
                  empty |-> FALSE,
                  total_income |-> SumOfType(transactions, "IN"),
                  total_expense |-> SumOfType(transactions, "OUT"),
                  total_transactions |-> Len(transactions),
                  latest |-> [i \in 1..Len(latest) |->
                                 [emoji |-> IF latest[i].tipe = "IN" THEN "up" ELSE "down",
                                  deskripsi |-> latest[i].deskripsi,
                                  jumlah |-> latest[i].jumlah]]])

\* variant: the rows of every type are counted in the categories
RECURSIVE CategoriesOfAllTypes(_, _)
CategoriesOfAllTypes(monthly, categories) ==
    IF monthly = <<>> THEN categories
    ELSE CategoriesOfAllTypes(Tail(monthly),
                      DictSet(categories, Head(monthly)[5],
                              Get(categories, Head(monthly)[5], 0) + IntOf(Head(monthly)[3])))

\* categories[cat] = categories.get(cat, 0) + amount, for the OUT rows
RECURSIVE CategoriesOf(_, _)
CategoriesOf(monthly, categories) ==
    IF monthly = <<>> THEN categories
    ELSE CategoriesOf(Tail(monthly),
                      IF Head(monthly)[4] = "OUT"
                      THEN DictSet(categories, Head(monthly)[5],
                                   Get(categories, Head(monthly)[5], 0) + IntOf(Head(monthly)[3]))
                      ELSE categories)

\* sum(int(t.get('Jumlah', 0)) for t in monthly_transactions if t.get('Tipe') == tipe)
RECURSIVE SumOfRows(_, _)
SumOfRows(monthly, tipe) ==
    IF monthly = <<>> THEN 0
    ELSE (IF Head(monthly)[4] = tipe THEN IntOf(Head(monthly)[3]) ELSE 0)
         + SumOfRows(Tail(monthly), tipe)

\* SheetsService.get_monthly_summary(year, month): Some(summary), or {} as
\* NoResult.  int() raises on an amount that is not a number: in the sums
\* for the rows of type IN and OUT, in the category loop for every row.
GetMonthlySummary(rows, connected, readable, year, month) ==
    IF ~connected \/ ~readable THEN NoResult
    ELSE Bind(SelectSeq(rows, LAMBDA r : r[1] # <<>> /\ r[1][1] = year /\ r[1][2] = month),
              LAMBDA monthly_transactions :
                 IF \E i \in 1..Len(monthly_transactions) : ~IntCell(monthly_transactions[i][3])
                 THEN NoResult
                 ELSE Bind(SumOfRows(monthly_transactions, "IN"), LAMBDA total_income :
                      Bind(SumOfRows(monthly_transactions, "OUT"), LAMBDA total_expense :
                           Some([total_transactions |-> Len(monthly_transactions),
                                 total_income |-> total_income,
                                 total_expense |-> total_expense,
                                 net_balance |-> total_income - total_expense,
                                 categories |-> CategoriesOf(monthly_transactions, EmptyDict),
                                 transactions |-> monthly_transactions]))))

\* rows of two months, six of them of one day, one with an amount in words
\* and one without a date
ReportLedger ==
    << << <<2025, 1, 31, "09:00">>, <<"beli", "kopi">>, JInt(2), "OUT", "Makanan & Minuman", -2, "", "No">>,
       << <<2025, 2, 1, "08:00">>, <<"gaji">>, JInt(3), "IN", "Keuangan", 1, "", "No">>,
       << <<2025, 2, 1, "09:00">>, <<"rokok">>, JInt(2), "OUT", "Pribadi", -1, "", "No">>,
       << <<2025, 2, 1, "10:00">>, <<"catatan">>, JInt(1), "INFO", "Lainnya", -1, "", "No">>,
       << <<2025, 2, 1, "11:00">>, <<"parkir">>, JStr("1"), "OUT", "Transportasi", -2, "", "No">>,
       << <<2025, 2, 1, "12:00">>, <<"terima">>, JInt(1), "IN", "Lainnya", -1, "", "No">>,
       << <<2025, 2, 1, "13:00">>, <<"parfum">>, JInt(3), "OUT", "Pribadi", -4, "", "No">>,
       << <<2025, 2, 1, "14:00">>, <<"catatan">>, JStr("dua"), "INFO", "Belanja", -4, "", "No">>,
       << <<2025, 2, 2, "08:00">>, <<"bensin">>, JInt(1), "OUT", "Transportasi", -5, "", "No">>,
       << <<>>, <<"rokok">>, JInt(1), "OUT", "Pribadi", -6, "", "No">> >>

\* the rows of a list at the chosen places, in the order of the list
RECURSIVE Pick(_, _, _)
Pick(rows, places, i) ==
    IF i > Len(rows) THEN <<>>
    ELSE (IF i \in places THEN <<rows[i]>> ELSE <<>>) \o Pick(rows, places, i + 1)

ReportUnits ==
    { [service |-> "report", today |-> <<2025, 2, 1>>, year |-> 2025, month |-> 2,
       connected |-> c[1], readable |-> c[2]] :
         c \in {<<TRUE, TRUE>>, <<TRUE, FALSE>>, <<FALSE, FALSE>>} }
    \cup
    { [service |-> "summary", today |-> <<2025, 2, 1>>, year |-> 2025, month |-> m,
       connected |-> c[1], readable |-> c[2]] :
         m \in {1, 2}, c \in {<<TRUE, TRUE>>, <<TRUE, FALSE>>, <<FALSE, FALSE>>} }

InitReports ==
    /\ Fresh
    /\ scheduler = NoScheduler
    /\ sync = NoSync
    /\ threads = NoThreads
    /\ result = NoReturn
    /\ backup_dir = NoFiles
    /\ ledger \in {Pick(ReportLedger, places, 1) : places \in SUBSET (1..Len(ReportLedger))}
    /\ unit \in ReportUnits
    /\ worksheet = unit.connected
    /\ sheets_health = worksheet

ReportsUnchanged ==
    UNCHANGED <<started, current_balance, transaction_count, error_count, ledger,
                backup_csv, gemini_health, sheets_health, worksheet, clock, req, resp,
                handler, sent, ai, save, bak, drive_files, unit, scheduler, sync,
                threads, backup_dir>>

\* generate_daily_report()
DailyReportCall ==
    /\ unit.service = "report"
    /\ ~result.returned
    /\ result' = [returned |-> TRUE,
                  value |-> DailyReport(GetDailyTransactions(ledger, worksheet, unit.readable,
                                                             unit.today),
                                        unit.today, current_balance)]
    /\ ReportsUnchanged

\* sheets.get_monthly_summary(year, month)
MonthlySummaryCall ==
    /\ unit.service = "summary"
    /\ ~result.returned
    /\ result' = [returned |-> TRUE,
                  value |-> GetMonthlySummary(ledger, worksheet, unit.readable, unit.year,
                                              unit.month)]
    /\ ReportsUnchanged

NextReports == DailyReportCall \/ MonthlySummaryCall

SpecReports == InitReports /\ [][NextReports]_vars

(***************************************************************************)
(* BackupService: the files of backups/.  backup_csv holds the data rows   *)
(* of backups/transactions.csv; backup_dir says whether that file exists,  *)
(* its modification time, and for every other file of the directory its    *)
(* rows and its modification time.  shutil.copy2 copies the content and    *)
(* the modification time.  A file name is its prefix and the second that   *)
(* its time stamp names; clock is the wall clock in seconds.               *)
(***************************************************************************)
max_backup_files == 30

FullBackup(stamp) == [kind |-> "full_backup", stamp |-> stamp]
RestoreBackup(stamp) == [kind |-> "restore_backup", stamp |-> stamp]
TransactionsCsv == [kind |-> "transactions", stamp |-> 0]
\* the empty str, which create_full_backup returns when it made no backup
EmptyName == [kind |-> "", stamp |-> 0]

\* os.path.exists(os.path.join(self.backup_dir, name)); the empty name gives
\* the path of the directory itself
PathExists(dir, name) ==
    IF name = EmptyName THEN TRUE
    ELSE IF name = TransactionsCsv THEN dir.exists
    ELSE name \in DOMAIN dir.files

\* variant: the backup is made of the header line only
CreateFullBackupOfHeader(csv, dir, now, copy_ok) ==
    IF dir.exists /\ copy_ok
    THEN [ret |-> FullBackup(now), csv |-> csv,
          dir |-> [dir EXCEPT !.files = DictSet(@, FullBackup(now),
                                                [rows |-> <<>>, mtime |-> dir.mtime])]]
    ELSE [ret |-> EmptyName, csv |-> csv, dir |-> dir]

\* BackupService.create_full_backup(); copy_ok: shutil.copy2 does not raise
CreateFullBackup(csv, dir, now, copy_ok) ==
    IF dir.exists /\ copy_ok
    THEN [ret |-> FullBackup(now), csv |-> csv,
          dir |-> [dir EXCEPT !.files = DictSet(@, FullBackup(now),
                                                [rows |-> csv, mtime |-> dir.mtime])]]
    ELSE [ret |-> EmptyName, csv |-> csv, dir |-> dir]

\* BackupService.restore_from_backup(backup_filename); env.stash_ok: the copy
\* of the current file does not raise, env.copy_ok: the copy of the backup over
\* the transactions file does not raise.  Copying the transactions file onto
\* itself raises SameFileError, copying the directory IsADirectoryError.
RestoreFromBackup(csv, dir, backup_filename, now, env) ==
    IF ~PathExists(dir, backup_filename) THEN [ret |-> FALSE, csv |-> csv, dir |-> dir]
    ELSE IF dir.exists /\ ~env.stash_ok THEN [ret |-> FALSE, csv |-> csv, dir |-> dir]
    ELSE Bind(IF dir.exists
              THEN [dir EXCEPT !.files = DictSet(@, RestoreBackup(now),
                                                 [rows |-> csv, mtime |-> dir.mtime])]
              ELSE dir,
              LAMBDA d :
                 IF backup_filename \in {TransactionsCsv, EmptyName} \/ ~env.copy_ok
                 THEN [ret |-> FALSE, csv |-> csv, dir |-> d]
                 ELSE [ret |-> TRUE, csv |-> d.files[backup_filename].rows,
                       dir |-> [d EXCEPT !.exists = TRUE,
                                         !.mtime = d.files[backup_filename].mtime]])

\* the files that start with 'full_backup_' and end with '.csv'
FullBackups(dir) == {n \in DOMAIN dir.files : n.kind = "full_backup"}

\* backup_files.sort(key=mtime, reverse=True)[:keep]: the sets of files that
\* the first places of the sorted list can hold.  Files of equal time keep the
\* order in which os.listdir gave them, which is any order.
NewestFirst(dir, keep) ==
    Bind(FullBackups(dir), LAMBDA all :
       IF Cardinality(all) <= keep THEN {all}
       ELSE Bind(CHOOSE t \in {dir.files[n].mtime : n \in all} :
                    /\ Cardinality({n \in all : dir.files[n].mtime > t}) < keep
                    /\ Cardinality({n \in all : dir.files[n].mtime >= t}) >= keep,
                 LAMBDA t :
                    Bind({n \in all : dir.files[n].mtime > t}, LAMBDA sure :
                       { sure \cup S : S \in {T \in SUBSET {n \in all : dir.files[n].mtime = t} :
                                                Cardinality(T) = keep - Cardinality(sure)} })))

\* variant: every file that is not a restore copy is a candidate
CleanupOldBackupsOfAnyName(dir, kept, fails, listable) ==
    IF ~listable THEN [ret |-> 0, dir |-> dir]
    ELSE Bind({n \in DOMAIN dir.files : n \notin kept /\ n \notin fails},
              LAMBDA removed :
                 [ret |-> Cardinality(removed),
                  dir |-> [dir EXCEPT !.files = [n \in DOMAIN @ \ removed |-> @[n]]]])

\* BackupService.cleanup_old_backups(); kept: the first max_backup_files
\* places of the sorted list, fails: the files for which os.remove raises,
\* listable: os.listdir and os.path.getmtime do not raise
CleanupOldBackups(dir, kept, fails, listable) ==
    IF ~listable THEN [ret |-> 0, dir |-> dir]
    ELSE Bind((FullBackups(dir) \ kept) \ fails,
              LAMBDA removed :
                 [ret |-> Cardinality(removed),
                  dir |-> [dir EXCEPT !.files = [n \in DOMAIN @ \ removed |-> @[n]]]])

MaxSeconds == 1

MaxCalls == 3

\* no call made yet and no full backup made by a call
NoBackup == [name |-> EmptyName, rows |-> <<>>, only_saves |-> FALSE]
NoCall == [returned |-> FALSE, calls |-> 0, made |-> NoBackup]

\* a row that an earlier run of the program wrote
OldRow == <<-1, <<"terima", "gaji", "1">>, CsvInt(1), "IN", "Lainnya", CsvInt(1), "", "No">>

\* n full backups made before, one a second or two a second
OldBackups(n, tied) ==
    [name \in {FullBackup(0 - i) : i \in 1..n} |->
        [rows |-> <<OldRow>>,
         mtime |-> IF tied THEN 0 - ((0 - name.stamp + 1) \div 2) ELSE name.stamp]]

FileTransaction(now) ==
    [tanggal |-> now, deskripsi |-> Purchase, jumlah |-> JInt(2), tipe |-> "OUT",
     kategori |-> "Pribadi", saldo |-> -2, bukti |-> "", private |-> "No"]

\* the names a caller passes to restore_from_backup
RestoreNames ==
    {FullBackup(-1), FullBackup(0), RestoreBackup(0), TransactionsCsv, EmptyName}

InitFiles ==
    /\ Unused
    /\ scheduler = NoScheduler
    /\ sync = NoSync
    /\ threads = NoThreads
    /\ result = NoCall
    /\ ledger = <<>>
    /\ worksheet = FALSE
    /\ sheets_health = FALSE
    /\ unit = [service |-> "files"]
    /\ backup_dir \in {[exists |-> e, mtime |-> 0, files |-> OldBackups(n, tied)] :
                           e \in BOOLEAN, tied \in BOOLEAN,
                           n \in {0, max_backup_files, max_backup_files + 1}}
    /\ backup_csv \in IF backup_dir.exists THEN {<<>>, <<OldRow>>} ELSE {<<>>}

FilesUnchanged ==
    UNCHANGED <<started, current_balance, transaction_count, error_count, ledger,
                gemini_health, sheets_health, worksheet, req, resp, handler, sent, ai,
                save, bak, drive_files, unit, scheduler, sync, threads>>

\* a second of wall-clock time passes
SecondPasses ==
    /\ unit.service = "files"
    /\ clock < MaxSeconds
    /\ clock' = clock + 1
    /\ FilesUnchanged
    /\ UNCHANGED <<backup_csv, backup_dir, result>>

\* backup.save_transaction(transaction_data); open(.., 'a') creates the file
FilesSaveCall ==
    /\ unit.service = "files"
    /\ result.calls < MaxCalls
    /\ Len(backup_csv) < MaxRows
    /\ \E ok \in BOOLEAN :
       \E r \in {BackupSaveTransaction(FileTransaction(clock), ok, backup_csv)} :
           /\ backup_csv' = r.rows
           /\ backup_dir' = IF ok THEN [backup_dir EXCEPT !.exists = TRUE, !.mtime = clock]
                             ELSE backup_dir
           /\ result' = [returned |-> TRUE, calls |-> result.calls + 1, op |-> "save",
                          value |-> r.ret,
                          made |-> result.made]
    /\ FilesUnchanged
    /\ UNCHANGED clock

\* backup.create_full_backup()
CreateCall ==
    /\ unit.service = "files"
    /\ result.calls < MaxCalls
    /\ \E copy_ok \in BOOLEAN :
       \E r \in {CreateFullBackup(backup_csv, backup_dir, clock, copy_ok)} :
           /\ backup_dir' = r.dir
           /\ result' = [returned |-> TRUE, calls |-> result.calls + 1, op |-> "create",
                          backup_filename |-> r.ret,
                          made |-> IF r.ret # EmptyName
                                   THEN [name |-> r.ret, rows |-> backup_csv,
                                         only_saves |-> TRUE]
                                   ELSE [result.made EXCEPT !.only_saves = FALSE]]
    /\ FilesUnchanged
    /\ UNCHANGED <<backup_csv, clock>>

\* backup.restore_from_backup(backup_filename)
RestoreCall ==
    /\ unit.service = "files"
    /\ result.calls < MaxCalls
    /\ \E backup_filename \in RestoreNames :
       \E env \in {[stash_ok |-> c[1], copy_ok |-> c[2]] :
                      c \in {<<TRUE, TRUE>>, <<FALSE, TRUE>>, <<TRUE, FALSE>>}} :
       \E r \in {RestoreFromBackup(backup_csv, backup_dir, backup_filename, clock, env)} :
           /\ backup_csv' = r.csv
           /\ backup_dir' = r.dir
           /\ result' = [returned |-> TRUE, calls |-> result.calls + 1, op |-> "restore",
                          arg |-> backup_filename,
                          env |-> env, value |-> r.ret,
                          restored |-> result.made,
                          made |-> [result.made EXCEPT !.only_saves = FALSE]]
    /\ FilesUnchanged
    /\ UNCHANGED clock

\* backup.cleanup_old_backups()
CleanupCall ==
    /\ unit.service = "files"
    /\ result.calls < MaxCalls
    /\ \E listable \in BOOLEAN :
       \E kept \in NewestFirst(backup_dir, max_backup_files) :
       \E fails \in SUBSET (FullBackups(backup_dir) \ kept) :
       \E r \in {CleanupOldBackups(backup_dir, kept, fails, listable)} :
           /\ backup_dir' = r.dir
           /\ result' = [returned |-> TRUE, calls |-> result.calls + 1, op |-> "cleanup",
                          cleaned_count |-> r.ret,
                          kept |-> kept, fails |-> fails, listable |-> listable,
                          made |-> [result.made EXCEPT !.only_saves = FALSE]]
    /\ FilesUnchanged
    /\ UNCHANGED <<backup_csv, clock>>

NextFiles == SecondPasses \/ FilesSaveCall \/ CreateCall \/ RestoreCall \/ CleanupCall

SpecFiles == InitFiles /\ [][NextFiles]_vars

(***************************************************************************)
(* LoggerService.monitor_system_health.  The error summary is read from    *)
(* logs/recovery.json: total_errors is the number of errors kept there and *)
(* recent_errors are those of the last ten that are younger than a day.    *)
(* A log size is kept in hundredths of a megabyte, as round(.., 2) gives   *)
(* it.  get_error_summary and get_log_stats catch what they raise, and     *)
(* nothing else in the try block of monitor_system_health can raise.       *)
(***************************************************************************)
MaxErrors == 26

Smaller(a, b) == IF a < b THEN a ELSE b
Larger(a, b) == IF a > b THEN a ELSE b

LogTypes == {"info", "error", "warning", "debug"}

\* variant: a score below zero is kept
HealthScoreWithoutFloor(total_errors, recent_error_count, log_stats) ==
    100 - (IF total_errors > 0 THEN Smaller(total_errors * 2, 50) ELSE 0)
        - (IF recent_error_count > 0 THEN Smaller(recent_error_count * 5, 30) ELSE 0)
        - 10 * Cardinality({log_type \in DOMAIN log_stats : log_stats[log_type] > 5000})

\* health_score of monitor_system_health; log_stats: size_mb of each log in
\* hundredths, the empty dict when get_log_stats raised
HealthScore(total_errors, recent_error_count, log_stats) ==
    Larger(100 - (IF total_errors > 0 THEN Smaller(total_errors * 2, 50) ELSE 0)
               - (IF recent_error_count > 0 THEN Smaller(recent_error_count * 5, 30) ELSE 0)
               - 10 * Cardinality({log_type \in DOMAIN log_stats :
                                      log_stats[log_type] > 5000}),
           0)

HealthStatus(health_score) ==
    IF health_score >= 80 THEN "HEALTHY"
    ELSE IF health_score >= 60 THEN "WARNING"
    ELSE IF health_score >= 40 THEN "CRITICAL"
    ELSE "FAILED"

\* LoggerService.monitor_system_health()
MonitorSystemHealth(error_summary, log_stats) ==
    Bind(HealthScore(error_summary.total_errors, Len(error_summary.recent_errors),
                     log_stats),
         LAMBDA health_score :
            [health_score |-> health_score, status |-> HealthStatus(health_score)])

HealthUnits ==
    { [service |-> "health",
       error_summary |-> [total_errors |-> total,
                          recent_errors |-> [i \in 1..recent |-> total - recent + i]],
       log_stats |-> log_stats] :
         total \in 0..MaxErrors, recent \in 0..10,
         log_stats \in [LogTypes -> {0, 5000, 5001}] \cup {EmptyDict} }

InitHealth ==
    /\ Fresh
    /\ Apart
    /\ ledger = <<>>
    /\ worksheet = FALSE
    /\ sheets_health = FALSE
    /\ unit \in {u \in HealthUnits :
                    Len(u.error_summary.recent_errors) <= u.error_summary.total_errors}

\* logger.monitor_system_health()
HealthCall ==
    /\ unit.service = "health"
    /\ ~result.returned
    /\ result' = [returned |-> TRUE,
                  value |-> MonitorSystemHealth(unit.error_summary, unit.log_stats)]
    /\ ReportsUnchanged

NextHealth == HealthCall

SpecHealth == InitHealth /\ [][NextHealth]_vars

(***************************************************************************)
(* Properties.  The request handled last is req; a request has been        *)
(* handled once clock > 0.                                                 *)
(***************************************************************************)
\* the sender's number, the '+' signs removed, is on the allow-list
Authorized(request) ==
    request.data
    /\ SelectSeq(request.sender, LAMBDA c : c # "+") \in {<<AdminNumber>>, <<BosNumber>>}

LastLedgerRow == ledger[Len(ledger)]
LastBackupRow == backup_csv[Len(backup_csv)]

\* what a ledger row adds to the balance
SignedAmount(row) ==
    IF row[4] = "IN" THEN row[3].n
    ELSE IF row[4] = "OUT" THEN 0 - row[3].n
    ELSE 0

RECURSIVE SumOfAmounts(_, _)
SumOfAmounts(rows, i) ==
    IF i = 0 THEN 0 ELSE SumOfAmounts(rows, i - 1) + SignedAmount(rows[i])

\* C1: the running balance written in every ledger row equals the starting
\* balance (0: the ledger is empty when the bot starts) plus the signed
\* amounts (IN adds, OUT subtracts, anything else adds nothing) of the rows
\* up to and including it.
LedgerBalanceIsPrefixSum ==
    \A i \in 1..Len(ledger) : ledger[i][6] = SumOfAmounts(ledger, i)

\* C2: a request whose sender is not on the allow-list is answered
\* 'rejected' with 403, no handler runs, and the balance, the transaction
\* count, the ledger and the backup stay as they were.
UnauthorizedIsRejected ==
    [][ (clock' = clock + 1 /\ req'.data /\ ~Authorized(req'))
        => /\ resp' = [code |-> 403, status |-> "rejected"]
           /\ handler' = "none"
           /\ ~ai'.done
           /\ UNCHANGED <<current_balance, transaction_count, ledger, backup_csv>>
      ]_vars

\* C3 as stated: every request of an allow-listed sender is handled by the
\* command handler or by the pipeline, and one reply is posted.
AuthorizedIsAlwaysAnswered ==
    (clock > 0 /\ Authorized(req))
    => handler \in {"command", "pipeline"} /\ Len(sent) = 1

\* C3: a request of an allow-listed sender whose message is a text that is
\* not blank is handled by exactly one of the command handler and the
\* pipeline, and exactly one reply is posted, to the sender; a blank text is
\* answered 200 with neither handler and no reply; a message that is no text
\* is answered 500 with neither handler and no reply.
AuthorizedTextIsHandledOnce ==
    (clock > 0 /\ Authorized(req))
    => IF req.message.t # "str"
       THEN handler = "none" /\ ~ai.done /\ sent = <<>> /\ resp.code = 500
       ELSE IF \E i \in 1..Len(req.message.s) : req.message.s[i] # " "
       THEN /\ handler \in {"command", "pipeline"}
            /\ (handler = "pipeline") = ai.done
            /\ Len(sent) = 1
            /\ sent[1].to = SelectSeq(req.sender, LAMBDA c : c # "+")
            /\ resp.code = 200
       ELSE handler = "none" /\ ~ai.done /\ sent = <<>> /\ resp.code = 200

AuthorizedTextIsHandledOnceWitness ==
    /\ clock = 2
    /\ req.sender = <<"+", BosNumber>>
    /\ req.message = JStr(Purchase)
    /\ handler = "pipeline"
    /\ Len(sent) = 1
    /\ sent[1].to = <<BosNumber>>

\* every post analyze_transaction made to the classifier failed
AllCallsFailed(a) ==
    a.done /\ \A i \in 1..Len(a.calls) : a.calls[i] \in {"exception", "non200", "no_text"}

\* C4 as stated: when every call to the classifier fails, the pipeline gets
\* the keyword classification of the message and records it.
ClassifierDownStillRecords ==
    (handler = "pipeline" /\ AllCallsFailed(ai))
    => ai.value = Some(FallbackParse(req.message.s)) /\ save.called

\* C4: when every call to the classifier fails, analyze_transaction returns
\* no result; process_transaction then records nothing (balance, count,
\* ledger and backup stay as they were) and replies that the analysis
\* failed.  A result is the keyword classification only after the
\* classifier answered 200 with a text.
ClassifierDownRecordsNothing ==
    [][ (clock' = clock + 1 /\ handler' = "pipeline")
        => /\ AllCallsFailed(ai')
              => /\ ~ai'.value.some
                 /\ ~save'.called /\ ~bak'.called
                 /\ UNCHANGED <<current_balance, transaction_count, ledger, backup_csv>>
                 /\ sent' = <<[to |-> SelectSeq(req'.sender, LAMBDA c : c # "+"),
                              body |-> Fixed("gagal_menganalisis")]>>
           /\ ai'.value.some => ai'.calls[Len(ai'.calls)] = "text"
      ]_vars

ClassifierDownRecordsNothingWitness ==
    /\ handler = "pipeline"
    /\ AllCallsFailed(ai)
    /\ ai.calls = <<"non200">>
    /\ sent[1].body = Fixed("gagal_menganalisis")
    /\ ledger = <<>>

\* the call whose answer analyze_transaction reads last on its first attempt
AnsweringCall ==
    LET e == unit.envs[1]
    IN  IF unit.media_url # Null /\ e.download /\ e.image.kind = "text"
        THEN e.image ELSE e.text

\* the text holds a JSON object with the five fields the prompt asks for
HoldsFullObject(c) ==
    /\ \E a \in 1..Len(c.content) :
          a + 2 <= Len(c.content) /\ SubSeq(c.content, a, a + 2) = <<"{", "kv", "}">>
    /\ {"deskripsi", "jumlah", "tipe", "kategori", "tanggapan_bot"} \subseteq DOMAIN c.obj

\* C5: when the classifier answers 200 with a text that holds no JSON
\* object with all five required fields, the result is the keyword
\* classification of the original message, on the text-only path and on the
\* image-bearing path.
UnusableAnswerGivesFallback ==
    (unit.service = "gemini" /\ ai.done
       /\ AnsweringCall.kind = "text" /\ ~HoldsFullObject(AnsweringCall))
    => ai.value = Some(FallbackParse(unit.message_text))

UnusableAnswerGivesFallbackWitness ==
    /\ unit.service = "gemini"
    /\ ai.done
    /\ unit.message_text = Income
    /\ unit.media_url = JStr(MediaUrl)
    /\ unit.envs[1].download
    /\ unit.envs[1].image = Call("text", <<"{", "kv", "}">>, ObjPartial)
    /\ ai.calls = <<"text">>
    /\ ai.value.some
    /\ ai.value.d.tipe = "IN"
    /\ ai.value.d.jumlah = JInt(1)
    /\ ai.value.d.bukti = ""

\* C6: analyze_transaction makes up to three attempts; it returns no result
\* only after the third attempt failed, and then marks the classifier
\* unhealthy.
NoResultOnlyAfterThirdAttempt ==
    (unit.service = "gemini" /\ ai.done /\ ~ai.value.some)
    => ai.attempts = 3 /\ ~gemini_health

\* C7: with a connected worksheet, save_transaction makes up to three
\* attempts: it returns True, healthy, at the first attempt that succeeds,
\* and returns False, unhealthy, only after three failed attempts (the
\* exception of the third is caught: the call returns).
SaveTriesThreeTimes ==
    (unit.service = "sheets" /\ save.called /\ save.connected)
    => LET oks == {k \in 1..3 : unit.env.outcomes[k] = "ok"}
       IN  IF oks # {}
           THEN /\ save.ret /\ sheets_health
                /\ save.attempts \in oks
                /\ \A k \in oks : save.attempts <= k
           ELSE ~save.ret /\ ~sheets_health /\ save.attempts = 3

SaveTriesThreeTimesWitness ==
    /\ unit.service = "sheets"
    /\ save.called /\ save.connected
    /\ unit.env.outcomes = <<"append_fails", "resize_fails", "ok">>
    /\ save.ret /\ save.attempts = 3 /\ sheets_health

\* C8: the backup write does not depend on the ledger write: a transaction
\* whose ledger save failed is still handed to the backup.
BackupIndependentOfLedger ==
    (handler = "pipeline" /\ save.called /\ ~save.ret) => bak.called

\* C9: the row appended to the backup file has the same eight fields, with
\* the same values in the same order, as the row appended to the ledger
\* (amount and balance as csv.writer writes them).
BackupRowMirrorsLedgerRow ==
    (handler = "pipeline" /\ bak.called /\ bak.ret)
    => /\ Len(LastBackupRow) = 8 /\ Len(LastLedgerRow) = 8
       /\ LastBackupRow[1] = LastLedgerRow[1]
       /\ LastBackupRow[2] = LastLedgerRow[2]
       /\ LastBackupRow[3] = CsvAmount(LastLedgerRow[3])
       /\ LastBackupRow[4] = LastLedgerRow[4]
       /\ LastBackupRow[5] = LastLedgerRow[5]
       /\ LastBackupRow[6] = CsvInt(LastLedgerRow[6])
       /\ LastBackupRow[7] = LastLedgerRow[7]
       /\ LastBackupRow[8] = LastLedgerRow[8]

BackupRowMirrorsLedgerRowWitness ==
    /\ handler = "pipeline"
    /\ bak.called /\ bak.ret
    /\ clock = 2
    /\ Len(backup_csv) = 2
    /\ LastLedgerRow[1] = 2
    /\ LastLedgerRow[3] = JInt(3)
    /\ LastLedgerRow[7] = MediaUrl
    /\ LastBackupRow[6] = CsvInt(1)

\* C10: when a message carries an image, the image is uploaded to the
\* evidence store and the evidence field of the ledger row holds the public
\* link of the uploaded file.
EvidenceIsUploadedLink ==
    (handler = "pipeline" /\ req.media_url # Null /\ save.called /\ save.ret)
    => \E f \in drive_files :
          LastLedgerRow[7] \in {GetFileUrl(f), GetDirectDownloadUrl(f)}

\* C11: every row the pipeline appends to the ledger has an integer amount,
\* a direction that is IN, OUT or INFO, and a category of the closed set,
\* whatever the classifier returned.
LedgerRowsAreWellTyped ==
    \A i \in 1..Len(ledger) :
        /\ ledger[i][3].t = "int"
        /\ ledger[i][4] \in {"IN", "OUT", "INFO"}
        /\ ledger[i][5] \in {"Makanan & Minuman", "Transportasi", "Hiburan", "Pribadi",
                             "Rumah Tangga", "Keuangan", "Lainnya"}

\* the schedule of a job, without the time of its next run
Registered(job) ==
    [job_func |-> job.job_func, unit |-> job.unit, start_day |-> job.start_day,
     at_time |-> job.at_time]

\* C12: once SchedulerService has been constructed, exactly five callbacks are
\* registered: the daily report every day at 23:50, the balance reminder every
\* day at 06:00, the system report every day at 00:00, the backup every Sunday
\* at 01:00 and the monthly insights on the 1st of each month at 08:00.
ConstructionRegistersFiveCallbacks ==
    scheduler.phase \in {"raised", "constructed"} =>
        /\ scheduler.phase = "constructed"
        /\ Len(scheduler.jobs) = 5
        /\ Registered(scheduler.jobs[1]) =
              [job_func |-> "_send_daily_report", unit |-> "days", start_day |-> -1,
               at_time |-> "23:50"]
        /\ Registered(scheduler.jobs[2]) =
              [job_func |-> "_send_balance_reminder", unit |-> "days", start_day |-> -1,
               at_time |-> "06:00"]
        /\ Registered(scheduler.jobs[3]) =
              [job_func |-> "_send_system_report", unit |-> "days", start_day |-> -1,
               at_time |-> "00:00"]
        /\ Registered(scheduler.jobs[4]) =
              [job_func |-> "_weekly_backup", unit |-> "weeks", start_day |-> Sunday,
               at_time |-> "01:00"]
        /\ Registered(scheduler.jobs[5]) =
              [job_func |-> "_send_monthly_insights", unit |-> "months", start_day |-> 1,
               at_time |-> "08:00"]

\* the ledger rows that sync_with_sheets is to look at
RecentLedgerRows == {i \in 1..Len(ledger) : i > Len(ledger) - SyncLimit}

HasKey(rows, row) == \E j \in 1..Len(rows) : rows[j][2] = row[2] /\ rows[j][1] = row[1]

\* C13: after sync_with_sheets has returned with errors = 0, every row among
\* the most recent 1000 rows of the ledger has a row with the same
\* description and date in the local backup, and 'synced' is the number of
\* those ledger rows whose key was not in the backup before the call.
SyncLeavesNoLedgerRowBehind ==
    (sync.called /\ sync.results.errors = 0) =>
        /\ \A i \in RecentLedgerRows : HasKey(backup_csv, ledger[i])
        /\ sync.results.synced =
              Cardinality({i \in RecentLedgerRows : ~HasKey(sync.before, ledger[i])})

\* C14: get_current_balance returns the running balance of the last ledger
\* row, and 0 when the ledger has no data row or cannot be read; main() sets
\* the in-memory balance to that value, and no webhook request is served
\* before it has done so.
BalanceLoadedBeforeServing ==
    [][ /\ (clock' # clock => started)
        /\ ((~started /\ started') =>
               current_balance' = IF worksheet /\ unit'.readable /\ ledger # <<>>
                                  THEN ledger[Len(ledger)][6]
                                  ELSE 0) ]_vars

BalanceLoadedBeforeServingWitness ==
    /\ started
    /\ clock = 0
    /\ unit.readable
    /\ Len(ledger) = 2
    /\ current_balance = -2

\* C15: whenever analyze_transaction returns a result, the result has all of
\* the fields deskripsi, jumlah, tipe, kategori and tanggapan_bot, whether it
\* is the classifier's parsed answer or the keyword fallback.
ResultHasTheFiveFields ==
    (unit.service = "gemini" /\ ai.done /\ ai.value.some)
    => {"deskripsi", "jumlah", "tipe", "kategori", "tanggapan_bot"} \subseteq DOMAIN ai.value.d

ResultHasTheFiveFieldsWitness ==
    /\ unit.service = "gemini"
    /\ ai.done
    /\ ai.value.some
    /\ ai.image
    /\ ai.calls = <<"non200", "text">>
    /\ unit.message_text = Income
    /\ ai.value.d = FallbackParse(Income)

\* C16: when the ledger save of a message fails (save_transaction returns
\* False), the in-memory balance and the transaction count are the same
\* after the message as before it.
FailedSaveLeavesTotalsUnchanged ==
    [][ (clock' # clock /\ handler' = "pipeline" /\ save'.called /\ ~save'.ret)
        => (current_balance' = current_balance /\ transaction_count' = transaction_count) ]_vars

\* C17: each transaction message that is processed adds at most one row to
\* the ledger, whichever step of an attempt fails (the append or the column
\* resize), and adds no row when save_transaction returns False.
MessageAddsAtMostOneRow ==
    [][ (clock' # clock)
        => /\ Len(ledger') <= Len(ledger) + 1
           /\ ((save'.called /\ ~save'.ret) => ledger' = ledger) ]_vars

\* the amount a thread's transaction adds to the balance
ThreadAmount(t) ==
    IF threads[t].ai_result.tipe = "IN" THEN threads[t].ai_result.jumlah.n
    ELSE IF threads[t].ai_result.tipe = "OUT" THEN 0 - threads[t].ai_result.jumlah.n
    ELSE 0

\* C18: when two authorized transaction messages are processed concurrently
\* and both saves succeed, the final in-memory balance is the starting
\* balance plus both signed amounts, and the running balance of the last
\* ledger row is that final balance.
ConcurrentMessagesBothCounted ==
    (unit.service = "threads"
       /\ \A t \in ThreadIds : threads[t].pc = "done" /\ threads[t].success)
    => /\ current_balance = unit.start + ThreadAmount(1) + ThreadAmount(2)
       /\ ledger[Len(ledger)][6] = current_balance

\* a word of the message holds the keyword, in either case
Mentions(message, keywords) ==
    \E i \in 1..Len(message.s) :
        message.s[i] \in keywords

\* C19: a message of an allow-listed sender whose lower-cased text holds
\* 'laporan', 'saldo', 'help' or 'bantuan' anywhere is answered by the command
\* handler (the daily report first, else the balance, else the help text)
\* and is neither classified nor recorded: the balance, the transaction
\* count, the ledger and the local backup are unchanged.
CommandsAreAnsweredAndRecordNothing ==
    [][ (/\ clock' # clock
         /\ req'.data /\ req'.message.t = "str"
         /\ Authorized(req')
         /\ Mentions(req'.message, {"laporan", "LAPORAN", "Saldo", "saldoku", "help", "bantuan"}))
        => /\ handler' = "command"
           /\ resp' = [code |-> 200, status |-> "success"]
           /\ sent' = << [to |-> RemovePlus(req'.sender),
                          body |-> IF Mentions(req'.message, {"laporan", "LAPORAN"})
                                   THEN BotText("laporan_harian", <<>>, current_balance, "")
                                   ELSE IF Mentions(req'.message, {"Saldo", "saldoku"})
                                   THEN BotText("saldo_terkini", <<>>, current_balance, "")
                                   ELSE Fixed("bantuan")] >>
           /\ ~ai'.done /\ ~save'.called /\ ~bak'.called
           /\ UNCHANGED <<current_balance, transaction_count, ledger, backup_csv>> ]_vars

CommandsAreAnsweredAndRecordNothingWitness ==
    /\ clock = 2
    /\ Authorized(req)
    /\ req.message = JStr(<<"saldoku", "LAPORAN">>)
    /\ handler = "command"
    /\ Len(ledger) > 0
    /\ transaction_count = 1
    /\ sent[1].body = BotText("laporan_harian", <<>>, current_balance, "")

\* C20: transaction_count never decreases, and once the messages received
\* have been handled it is the number of messages whose ledger save returned
\* success, which is also the number of messages that were given a success
\* reply rather than a failure reply.
CountIsNumberOfSuccessfulSaves ==
    [][ /\ transaction_count' >= transaction_count
        /\ (unit.service = "threads" /\ \A t \in ThreadIds : threads'[t].pc = "done")
           => /\ transaction_count' = Cardinality({t \in ThreadIds : threads'[t].success})
              /\ {t \in ThreadIds : threads'[t].success}
                    = {t \in ThreadIds :
                          threads'[t].reply = threads'[t].ai_result.tanggapan_bot} ]_vars

\* a word of the text is one of the words, or holds one of them
HasWord(text, words) == \E i \in 1..Len(text) : text[i] \in words

\* C21: the keyword fallback sets the direction to IN when the lower-cased
\* message holds 'tf', 'transfer', 'terima', 'dari' or 'masuk' anywhere,
\* otherwise to OUT when it holds 'beli', 'bayar', 'keluar' or 'habis',
\* otherwise to INFO; a message with an inflow and an outflow keyword is IN.
FallbackDirectionPrefersInflow ==
    (unit.service = "gemini" /\ ai.done
       /\ AnsweringCall.kind = "text" /\ ~HoldsFullObject(AnsweringCall))
    => /\ ai.value.some
       /\ ai.value.d.tipe =
             IF HasWord(unit.message_text, {"tf", "transfer", "terima", "dari", "masuk", "outfit"})
             THEN "IN"
             ELSE IF HasWord(unit.message_text, {"beli", "bayar", "Bayar", "keluar", "habis"})
             THEN "OUT"
             ELSE "INFO"

FallbackDirectionPrefersInflowWitness ==
    /\ unit.service = "gemini"
    /\ ai.done
    /\ unit.message_text = <<"Bayar", "transfer", "1">>
    /\ AnsweringCall.kind = "text"
    /\ ~HoldsFullObject(AnsweringCall)
    /\ ai.value.some
    /\ ai.value.d.tipe = "IN"
    /\ ai.value.d.jumlah = JInt(1)

\* the ledger rows of the day the report is made for
RowsOfToday == SelectSeq(ledger, LAMBDA r : StartsWith(r[1], unit.today))

RECURSIVE AmountOfRows(_, _)
AmountOfRows(rows, tipe) ==
    IF rows = <<>> THEN 0
    ELSE (IF Head(rows)[4] = tipe /\ IntCell(Head(rows)[3]) THEN IntOf(Head(rows)[3]) ELSE 0)
         + AmountOfRows(Tail(rows), tipe)

\* C22: the daily report gives as income the sum of the amounts of the day's
\* ledger rows of type IN, as expense the sum for type OUT, as total the
\* number of the day's rows, and lists the last five of them in ledger
\* order; it says 'no transactions today' exactly when the ledger has no
\* row of that day.
DailyReportTotalsTheDay ==
    (unit.service = "report" /\ result.returned)
    => /\ result.value.empty <=> RowsOfToday = <<>>
       /\ ~result.value.empty =>
             /\ result.value.total_income = AmountOfRows(RowsOfToday, "IN")
             /\ result.value.total_expense = AmountOfRows(RowsOfToday, "OUT")
             /\ result.value.total_transactions = Len(RowsOfToday)
             /\ Len(result.value.latest) = IF Len(RowsOfToday) > 5 THEN 5 ELSE Len(RowsOfToday)
             /\ \A i \in 1..Len(result.value.latest) :
                   result.value.latest[i].deskripsi =
                      RowsOfToday[Len(RowsOfToday) - Len(result.value.latest) + i][2]

\* the ledger rows dated in the month the summary is made for
RowsOfMonth ==
    SelectSeq(ledger, LAMBDA r : r[1] # <<>> /\ r[1][1] = unit.year /\ r[1][2] = unit.month)

RECURSIVE SumOfValues(_, _)
SumOfValues(d, keys) ==
    IF keys = {} THEN 0
    ELSE Bind(CHOOSE k \in keys : TRUE,
              LAMBDA k : d[k] + SumOfValues(d, keys \ {k}))

RestoreReturns ==
    result'.returned /\ result'.calls = result.calls + 1 /\ result'.op = "restore"

\* the name is that of a file in the backup directory
InBackupDir(dir, name) ==
    name \in DOMAIN dir.files \/ (name = TransactionsCsv /\ dir.exists)

\* the rows of a file of the backup directory
RowsOfFile(csv, dir, name) == IF name = TransactionsCsv THEN csv ELSE dir.files[name].rows

\* C24: restore_from_backup with a name that does not exist in the backup
\* directory returns False and leaves the transactions file unchanged; with
\* an existing name it stores a copy of the current transactions file under
\* a restore_backup_ name, replaces the transactions file with the content
\* that the backup had, and returns True.
RestoreStoresACopyThenReplaces ==
    [][ RestoreReturns =>
          IF ~InBackupDir(backup_dir, result'.arg)
          THEN result'.value = FALSE /\ backup_csv' = backup_csv
          ELSE /\ result'.value = TRUE
               /\ backup_dir.exists =>
                     /\ RestoreBackup(clock) \in DOMAIN backup_dir'.files
                     /\ backup_dir'.files[RestoreBackup(clock)].rows = backup_csv
               /\ backup_csv' = RowsOfFile(backup_csv, backup_dir, result'.arg) ]_vars

\* C25: when create_full_backup has returned a file name, only transactions
\* were saved to the local backup since, and restore_from_backup of that name
\* returns True, the transactions file has exactly the rows it had when the
\* backup was created.
BackupThenRestoreGivesTheRowsBack ==
    (/\ result.returned /\ result.op = "restore"
     /\ result.restored.only_saves
     /\ result.arg = result.restored.name
     /\ result.value = TRUE)
    => backup_csv = result.restored.rows

\* a backup is restored after a transaction was saved on top of it
BackupThenRestoreGivesTheRowsBackWitness ==
    /\ result.returned /\ result.op = "restore"
    /\ result.restored.only_saves
    /\ result.arg = result.restored.name
    /\ result.value = TRUE
    /\ result.restored.rows # <<>>
    /\ RestoreBackup(clock) \in DOMAIN backup_dir.files
    /\ backup_dir.files[RestoreBackup(clock)].rows = Append(result.restored.rows, BackupRow(FileTransaction(0)))

\* a call of cleanup_old_backups has just returned
CleanupReturns ==
    result'.returned /\ result'.calls = result.calls + 1 /\ result'.op = "cleanup"

\* the files that the step removes from the backup directory
RemovedFiles == DOMAIN backup_dir.files \ DOMAIN backup_dir'.files

\* full backups other than r that were modified no earlier than r
NoOlderThan(dir, r) ==
    {n \in FullBackups(dir) \ {r} : dir.files[n].mtime >= dir.files[r].mtime}

\* the step removes full backups only, none of the max_backup_files newest,
\* no more than it must, returns the number removed, and leaves every other
\* file and the transactions file as they were
CleanupRemovesOldFullBackupsOnly ==
    /\ RemovedFiles \subseteq FullBackups(backup_dir)
    /\ \A n \in DOMAIN backup_dir'.files :
          n \in DOMAIN backup_dir.files /\ backup_dir'.files[n] = backup_dir.files[n]
    /\ \A r \in RemovedFiles : Cardinality(NoOlderThan(backup_dir, r)) >= max_backup_files
    /\ Cardinality(FullBackups(backup_dir)) >= max_backup_files
          => Cardinality(FullBackups(backup_dir')) >= max_backup_files
    /\ result'.cleaned_count = Cardinality(RemovedFiles)
    /\ backup_csv' = backup_csv
    /\ backup_dir'.exists = backup_dir.exists
    /\ backup_dir'.mtime = backup_dir.mtime

IsPrefix(rows, more) == Len(rows) <= Len(more) /\ SubSeq(more, 1, Len(rows)) = rows

\* C27: when sync_with_sheets runs twice in a row and the remote ledger does
\* not change in between, the second run appends nothing to the local backup
\* and reports synced = 0; a run only appends rows to the local backup and
\* never removes or rewrites one.
SecondSyncAppendsNothing ==
    /\ sync.called => IsPrefix(sync.before, backup_csv)
    /\ result.returned =>
          /\ IsPrefix(result.before, backup_csv)
          /\ backup_csv = result.before
          /\ result.results.synced = 0

\* C28: monitor_system_health yields a health score between 0 and 100
\* inclusive, for any number of recorded errors and any log sizes, and the
\* status is HEALTHY for a score of 80 or more, WARNING for 60 to 79,
\* CRITICAL for 40 to 59 and FAILED below 40.
HealthScoreIsBoundedAndGraded ==
    (unit.service = "health" /\ result.returned)
    => /\ result.value.health_score \in 0..100
       /\ result.value.health_score \in 80..100 <=> result.value.status = "HEALTHY"
       /\ result.value.health_score \in 60..79 <=> result.value.status = "WARNING"
       /\ result.value.health_score \in 40..59 <=> result.value.status = "CRITICAL"
       /\ result.value.health_score \in 0..39 <=> result.value.status = "FAILED"

\* every deduction at its cap and four logs over 50 MB: the score stops at 0
HealthScoreIsBoundedAndGradedWitness ==
    /\ unit.service = "health" /\ result.returned
    /\ unit.error_summary.total_errors > 25
    /\ Len(unit.error_summary.recent_errors) > 6
    /\ \A log_type \in LogTypes :
          log_type \in DOMAIN unit.log_stats /\ unit.log_stats[log_type] > 5000
    /\ result.value.health_score = 0
    /\ result.value.status = "FAILED"

====
